---------------------------- MODULE Spec2Model ----------------------------
(***************************************************************************)
(* Field validation state machines of the onboarding form:                 *)
(*   - the local field machine      (modules/fields/useSimpleField.ts)     *)
(*   - the remote field machine     (modules/fields/useCorpNoField.ts)     *)
(*   - the TTL result cache         (modules/cache/inMemoryCorpNoCache.ts) *)
(*   - the form orchestrator       (modules/forms/useOnboardingForm.ts)    *)
(*                                                                         *)
(* The machines run on one thread.  A step of the model is one task of the *)
(* event loop: a call of the hook's API, the callback of a timer, or the   *)
(* continuation of an awaited fetch.  The task runs to completion; React   *)
(* then applies the event it dispatched with the reducer, commits the new  *)
(* state and runs, cleanups before bodies and in declaration order, every  *)
(* effect whose dependency list changed; an event dispatched by an effect  *)
(* is rendered the same way before the next task starts.                   *)
(*                                                                         *)
(* A string is a sequence of one-character strings, a timestamp a natural  *)
(* number read from the clock `now` (Date.now()).                          *)
(***************************************************************************)
EXTENDS Integers, Sequences, FiniteSets, TLC

\* ------------------------------------------------------------------------
\* Bounds of the model
\* ------------------------------------------------------------------------

\* The clock runs from 0 to MaxTime.
MaxTime == 3

\* The clock of the remote field machine runs from 0 to CorpMaxTime.
CorpMaxTime == 2

\* requestIdCounter stops at MaxRequests.
MaxRequests == 2

\* validateNow is called at most MaxPromises times.
MaxPromises == 1

\* The clock of the specification of validateNow's promises runs from 0 to
\* AwaitMaxTime, and validateNow is called at most MaxAwaitPromises times in it.
AwaitMaxTime == 3
MaxAwaitPromises == 2

\* validateAll and submit of the form orchestrator are called at most
\* MaxFormCalls times together.
MaxFormCalls == 1

\* In the specification of repeated submissions submit is called at most
\* MaxRetryCalls times.
MaxRetryCalls == 2

\* ------------------------------------------------------------------------
\* Values shared by the machines
\* ------------------------------------------------------------------------

\* `null` of a nullable timestamp (lastBlurAt, lastCheckedAt).
Null == -1

\* `null` of a nullable classification or message.
NullStr == "null"

\* `null` / `undefined` of a nullable string value.
NullValue == <<"null">>

EmptyString == <<>>

Last(q) == q[Len(q)]

VARIABLES
    now,              \* Date.now()
    \* ---- local field machine (useSimpleField) ----
    validator,        \* the validator option: a predicate on values
    simpleState,      \* the reducer state
    simpleIdle,       \* idleTimeoutRef: Null or the deadline of the armed timer
    simpleBlurEval,   \* the zero-delay evaluate timeout of the blur effect is armed
    simplePrevBlur,   \* prevLastBlurAtRef
    \* ---- result cache (InMemoryCorpNoCache) ----
    cache,            \* the Map: a function from the keys present to entries
    cacheInterval,    \* the cleanup interval timer is running
    written,          \* history: per key, the latest set() not yet undone by
                      \* delete(), clear() or destroy()
    \* ---- remote field machine (useCorpNoField) ----
    fetcher,          \* typeof the fetcher option
    corpState,        \* the reducer state
    corpIdle,         \* idleTimeoutRef: Null or the deadline of the armed timer
    corpBlurEval,     \* the zero-delay evaluate timeout of the blur effect is armed
    corpPrevBlur,     \* prevLastBlurAtRef
    currentRequest,   \* currentRequestRef: NoId or the id of the tracked request
    requests,         \* the requests issued, by id: the number asked about,
                      \* controller.signal.aborted, and where the fetch stands
    remoteCleanup,    \* the request id the remote effect's pending cleanup closes over
    awaiter,          \* validationAwaiterRef: NoId or the promise it resolves
    promises,         \* the promises validateNow returned, by id
    verdictFor,       \* history: the number whose verdict the reducer applied last
    \* ---- form orchestrator (useOnboardingForm) ----
    formFields,       \* the reducer states of firstName, lastName and phone
    isSubmitting,     \* useState(false)
    formError,        \* useState(null)
    abortControllerRef, \* NoCall or the call whose controller the ref holds
    calls,            \* the calls of validateAll and submit, by number
    posts,            \* the invocations of postProfileDetails in order: the
                      \* call of submit that made it, and the payload
    \* ---- I/O adapters (corpFetcher, postProfileDetails) ----
    hasAny,           \* typeof AbortSignal.any === "function"
    ioCall,           \* the call of an adapter: where it stands, how its
                      \* fetch settled, whether its timer fired meanwhile,
                      \* and what it returned or threw
    ioSignal,         \* signal.aborted of the caller's signal
    ioTimer,          \* the adapter's setTimeout is armed
    ioController,     \* signal.aborted of the adapter's timeout controller
    ioCombined,       \* the signal handed to fetch
    sigInputs,        \* composeAbortSignal: aborted of each input signal
    sigComposite,     \* composeAbortSignal: the signal returned
    sigComposed,      \* composeAbortSignal has been called
    \* ---- corporation number domain ----
    candidate,        \* the string handed to the three functions
    answers           \* what each of them answered for it

simpleVars ==
    <<validator, simpleState, simpleIdle, simpleBlurEval, simplePrevBlur>>

cacheVars == <<cache, cacheInterval, written>>

corpVars ==
    <<fetcher, corpState, corpIdle, corpBlurEval, corpPrevBlur, currentRequest,
      requests, remoteCleanup, awaiter, promises, verdictFor>>

formVars == <<formFields, isSubmitting, formError, abortControllerRef, calls, posts>>

adapterVars == <<ioCall, ioSignal, ioTimer, ioController, ioCombined>>

sigVars == <<sigInputs, sigComposite, sigComposed>>

ioVars == <<hasAny, adapterVars, sigVars>>

domainVars == <<candidate, answers>>

vars == <<now, simpleVars, cacheVars, corpVars, formVars, ioVars, domainVars>>

\* Time passes.
Tick ==
    /\ now < MaxTime
    /\ now' = now + 1

\* ------------------------------------------------------------------------
\* Local field machine: modules/fields/useSimpleField.ts
\* ------------------------------------------------------------------------

\* The idleMs option, in clock ticks.
SimpleIdleMs == 1

\* Values typed into a local field.
SimpleValues == {EmptyString, <<"a">>, <<"b">>}

\* The validator option: a predicate that accepts <<"a">> and rejects <<"b">>;
\* isValidName and isValidPhoneCA reject the empty string, a validator of
\* an optional field accepts it.
SimpleValidators ==
    {f \in [SimpleValues -> BOOLEAN] : f[<<"a">>] /\ ~f[<<"b">>]}

SimpleCreateInitialState ==
    [tag |-> "empty", value |-> EmptyString, lastUpdatedAt |-> 0,
     lastBlurAt |-> Null, issue |-> NullStr]

\* A reducer that validates on every keystroke (mutant of SimpleChange).
SimpleChangeEager(state, event) ==
    [tag |-> IF Len(event.value) = 0 THEN "empty"
             ELSE IF validator[event.value] THEN "active" ELSE "invalid",
     value |-> event.value,
     lastUpdatedAt |-> event.timestamp,
     lastBlurAt |-> state.lastBlurAt,
     issue |-> IF Len(event.value) = 0 \/ validator[event.value]
               THEN NullStr ELSE "invalid"]

\* case "change"
SimpleChange(state, event) ==
    IF Len(event.value) = 0
    THEN [tag |-> "empty", value |-> event.value,
          lastUpdatedAt |-> event.timestamp,
          lastBlurAt |-> state.lastBlurAt, issue |-> NullStr]
    ELSE [tag |-> "active", value |-> event.value,
          lastUpdatedAt |-> event.timestamp,
          lastBlurAt |-> state.lastBlurAt, issue |-> NullStr]

\* case "blur"
SimpleBlur(state, event) ==
    [state EXCEPT !.lastBlurAt = event.timestamp]

\* A focus that forgets to clear the issue (mutant of SimpleFocus).
SimpleFocusKeepIssue(state, event) ==
    IF state.tag = "invalid"
    THEN [state EXCEPT !.tag = IF state.value # EmptyString THEN "active" ELSE "empty"]
    ELSE state

\* A focus with the two branches of the ternary swapped (mutant of SimpleFocus).
SimpleFocusSwapped(state, event) ==
    IF state.tag = "invalid"
    THEN [state EXCEPT !.tag = IF state.value # EmptyString THEN "empty" ELSE "active",
                       !.issue = NullStr]
    ELSE state

\* case "focus"
SimpleFocus(state, event) ==
    IF state.tag = "invalid"
    THEN [state EXCEPT !.tag = IF state.value # EmptyString THEN "active" ELSE "empty",
                       !.issue = NullStr]
    ELSE state

\* An evaluate that would run in tag active only, as the remote field's
\* does (mutant of SimpleEvaluate).
SimpleEvaluateGuarded(state, event) ==
    IF state.tag # "active" THEN state
    ELSE LET isValid == validator[state.value]
         IN [state EXCEPT !.tag = IF isValid THEN "valid" ELSE "invalid",
                          !.issue = IF isValid THEN NullStr ELSE "invalid",
                          !.lastUpdatedAt = event.timestamp]

\* case "evaluate"
SimpleEvaluate(state, event) ==
    LET isValid == validator[state.value]
    IN [state EXCEPT !.tag = IF isValid THEN "valid" ELSE "invalid",
                     !.issue = IF isValid THEN NullStr ELSE "invalid",
                     !.lastUpdatedAt = event.timestamp]

simpleFieldReducer(state, event) ==
    CASE event.type = "change"   -> SimpleChange(state, event)
      [] event.type = "blur"     -> SimpleBlur(state, event)
      [] event.type = "focus"    -> SimpleFocus(state, event)
      [] event.type = "evaluate" -> SimpleEvaluate(state, event)

\* An idle effect that would leave an armed timer running instead of
\* clearing it and arming a new one.
SimpleIdleEffectKeeps(old, new, timer) ==
    IF new.tag # "active" THEN Null
    ELSE IF timer # Null THEN timer ELSE now + SimpleIdleMs

\* Idle effect, deps [state.tag, state.lastUpdatedAt, idleMs]: the armed timer
\* is cleared and, in tag active, a new one is armed.
SimpleIdleEffect(old, new, timer) ==
    IF old.tag = new.tag /\ old.lastUpdatedAt = new.lastUpdatedAt
    THEN timer
    ELSE IF new.tag = "active" THEN now + SimpleIdleMs ELSE Null

\* Blur effect, deps [state.lastBlurAt, state.tag]: whether the effect runs.
SimpleBlurEffectRuns(old, new) ==
    old.lastBlurAt # new.lastBlurAt \/ old.tag # new.tag

\* Blur effect body: on a blur edge in tag active or empty it arms the
\* zero-delay evaluate; the cleanup of the previous run clears that timeout.
SimpleBlurEffectArms(new, prev) ==
    /\ new.lastBlurAt # prev
    /\ new.lastBlurAt # Null
    /\ new.tag \in {"active", "empty"}

\* dispatch(event): the reducer, the commit and the effects.  idle and
\* blurEval are the two timers as the dispatching task leaves them.
SimpleDispatch(event, idle, blurEval) ==
    LET new == simpleFieldReducer(simpleState, event)
    IN /\ simpleState' = new
       /\ simpleIdle' = SimpleIdleEffect(simpleState, new, idle)
       /\ IF SimpleBlurEffectRuns(simpleState, new)
          THEN /\ simpleBlurEval' = SimpleBlurEffectArms(new, simplePrevBlur)
               /\ simplePrevBlur' = new.lastBlurAt
          ELSE /\ simpleBlurEval' = blurEval
               /\ simplePrevBlur' = simplePrevBlur

\* onChange
SimpleOnChange ==
    /\ \E v \in SimpleValues :
         SimpleDispatch([type |-> "change", value |-> v, timestamp |-> now],
                        simpleIdle, simpleBlurEval)
    /\ UNCHANGED <<now, ioVars, domainVars, formVars, validator, cacheVars, corpVars>>

\* onBlur
SimpleOnBlur ==
    /\ SimpleDispatch([type |-> "blur", timestamp |-> now], simpleIdle, simpleBlurEval)
    /\ UNCHANGED <<now, ioVars, domainVars, formVars, validator, cacheVars, corpVars>>

\* onFocus
SimpleOnFocus ==
    /\ SimpleDispatch([type |-> "focus", timestamp |-> now], simpleIdle, simpleBlurEval)
    /\ UNCHANGED <<now, ioVars, domainVars, formVars, validator, cacheVars, corpVars>>

\* evaluate (the explicit call of the hook's API)
SimpleEvaluateCall ==
    /\ SimpleDispatch([type |-> "evaluate", timestamp |-> now], simpleIdle, simpleBlurEval)
    /\ UNCHANGED <<now, ioVars, domainVars, formVars, validator, cacheVars, corpVars>>

\* The idle timer's callback: it runs once the delay has elapsed.
SimpleIdleFire ==
    /\ simpleIdle # Null
    /\ now >= simpleIdle
    /\ SimpleDispatch([type |-> "evaluate", timestamp |-> now], Null, simpleBlurEval)
    /\ UNCHANGED <<now, ioVars, domainVars, formVars, validator, cacheVars, corpVars>>

\* The blur effect's setTimeout(..., 0) callback.
SimpleBlurEvalFire ==
    /\ simpleBlurEval
    /\ SimpleDispatch([type |-> "evaluate", timestamp |-> now], simpleIdle, FALSE)
    /\ UNCHANGED <<now, ioVars, domainVars, formVars, validator, cacheVars, corpVars>>

\* ------------------------------------------------------------------------
\* Remote validation results: modules/io/corpFetcher.ts (CorpNoValidationResult)
\* ------------------------------------------------------------------------

ValueA == <<"1", "2", "3", "4", "5", "6", "7", "8", "9">>
ValueB == <<"1", "1", "1", "1", "1", "1", "1", "1", "1">>

\* Keys of the cache: plausible corporation numbers.
CorpKeys == {ValueA, ValueB}

ResultValid(cn) ==
    [kind |-> "valid", corporationNumber |-> cn, message |-> NullStr, error |-> NullStr]

ResultInvalid(msg) ==
    [kind |-> "invalid", corporationNumber |-> NullValue, message |-> msg, error |-> NullStr]

ResultError(err, msg) ==
    [kind |-> "error", corporationNumber |-> NullValue, message |-> msg, error |-> err]

\* What a fetcher may resolve with for the number cn.
ResultsFor(cn) ==
    {ResultValid(cn), ResultInvalid("Corporation number not found"),
     ResultError("server", "Server error (500)"), ResultError("timeout", NullStr)}

\* `undefined`, the return value of get() for an absent key.
Undefined == [kind |-> "undefined"]

\* ------------------------------------------------------------------------
\* Result cache: modules/cache/inMemoryCorpNoCache.ts
\* ------------------------------------------------------------------------

\* defaultTtlMs of the constructor, in clock ticks.
DefaultTtlMs == 2

\* The ttlMs argument of set(): Null stands for an omitted argument.
TtlArgs == {Null, 0, 1}

EmptyMap == [k \in {} |-> Undefined]

MapDelete(map, key) == [k \in DOMAIN map \ {key} |-> map[k]]

MapSet(map, key, entry) ==
    [k \in DOMAIN map \cup {key} |-> IF k = key THEN entry ELSE map[k]]

\* An expiry test that is off by one (mutant of CacheExpired).
CacheExpiredAtDeadline(entry, t) == t >= entry.expiresAt

\* Date.now() > entry.expiresAt
CacheExpired(entry, t) == t > entry.expiresAt

\* get(): the value returned and the Map afterwards.
CacheGet(map, key, t) ==
    IF key \notin DOMAIN map THEN [result |-> Undefined, cache |-> map]
    ELSE IF CacheExpired(map[key], t)
         THEN [result |-> Undefined, cache |-> MapDelete(map, key)]
         ELSE [result |-> map[key].result, cache |-> map]

\* set(): the Map afterwards.
CacheSet(map, key, result, ttlMs, t) ==
    LET actualTtlMs == IF ttlMs = Null THEN DefaultTtlMs ELSE ttlMs
        expiresAt == t + actualTtlMs
    IN MapSet(map, key, [result |-> result, expiresAt |-> expiresAt])

\* cleanup(): every expired entry is deleted.
CacheCleanup(map, t) ==
    [k \in {x \in DOMAIN map : ~CacheExpired(map[x], t)} |-> map[k]]

CacheGetCall ==
    /\ \E k \in CorpKeys :
         cache' = CacheGet(cache, k, now).cache
    /\ UNCHANGED <<now, ioVars, domainVars, formVars, simpleVars, corpVars, cacheInterval, written>>

CacheSetCall ==
    /\ \E k \in CorpKeys : \E r \in ResultsFor(k), ttl \in TtlArgs :
         /\ cache' = CacheSet(cache, k, r, ttl, now)
         /\ written' = MapSet(written, k,
                [result |-> r,
                 expiresAt |-> now + (IF ttl = Null THEN DefaultTtlMs ELSE ttl)])
    /\ UNCHANGED <<now, ioVars, domainVars, formVars, simpleVars, corpVars, cacheInterval>>

\* delete()
CacheDeleteCall ==
    /\ \E k \in CorpKeys :
         /\ cache' = MapDelete(cache, k)
         /\ written' = MapDelete(written, k)
    /\ UNCHANGED <<now, ioVars, domainVars, formVars, simpleVars, corpVars, cacheInterval>>

\* clear()
CacheClearCall ==
    /\ cache' = EmptyMap
    /\ written' = EmptyMap
    /\ UNCHANGED <<now, ioVars, domainVars, formVars, simpleVars, corpVars, cacheInterval>>

\* size(): cleans up before it counts.
CacheSizeCall ==
    /\ cache' = CacheCleanup(cache, now)
    /\ UNCHANGED <<now, ioVars, domainVars, formVars, simpleVars, corpVars, cacheInterval, written>>

\* The callback of the cleanup interval.
CacheIntervalFire ==
    /\ cacheInterval
    /\ cache' = CacheCleanup(cache, now)
    /\ UNCHANGED <<now, ioVars, domainVars, formVars, simpleVars, corpVars, cacheInterval, written>>

\* destroy()
CacheDestroyCall ==
    /\ cacheInterval' = FALSE
    /\ cache' = EmptyMap
    /\ written' = EmptyMap
    /\ UNCHANGED <<now, ioVars, domainVars, formVars, simpleVars, corpVars>>

\* ------------------------------------------------------------------------
\* Corporation number domain: modules/domain/corpNo.ts
\* ------------------------------------------------------------------------

Digits == {"0", "1", "2", "3", "4", "5", "6", "7", "8", "9"}

\* /^\d+$/.test(s)
AllDigits(s) == Len(s) >= 1 /\ \A i \in 1..Len(s) : s[i] \in Digits

\* The length a plausible corporation number has.
CorpNoLength == 9

whyNotPlausibleCorpNo(s) ==
    IF Len(s) = 0 THEN "empty"
    ELSE IF ~AllDigits(s) THEN "contains_non_digit"
    ELSE IF Len(s) < CorpNoLength THEN "too_short"
    ELSE IF Len(s) > CorpNoLength THEN "too_long"
    ELSE NullStr

isPlausibleCorpNo(s) == whyNotPlausibleCorpNo(s) = NullStr

formatCorpNoLocalIssue(issue) ==
    CASE issue = "empty" -> "Required"
      [] issue = "contains_non_digit" -> "Only digits"
      [] issue = "too_short" -> "9 digits"
      [] issue = "too_long" -> "9 digits"

\* A conversion that lets through whatever is made of digits (mutant of
\* toPlausibleCorpNo).
toPlausibleCorpNoLoose(s) ==
    IF AllDigits(s) THEN [threw |-> FALSE, value |-> s, message |-> NullStr]
    ELSE [threw |-> TRUE, value |-> NullValue,
          message |-> "Cannot convert to PlausibleCorpNo: "
                      \o formatCorpNoLocalIssue(whyNotPlausibleCorpNo(s))]

\* toPlausibleCorpNo(s): the string itself, or the Error thrown.
toPlausibleCorpNo(s) ==
    LET issue == whyNotPlausibleCorpNo(s)
    IN IF issue # NullStr
       THEN [threw |-> TRUE, value |-> NullValue,
             message |-> "Cannot convert to PlausibleCorpNo: "
                         \o formatCorpNoLocalIssue(issue)]
       ELSE [threw |-> FALSE, value |-> s, message |-> NullStr]

\* The longest string handed to the three functions.
MaxCandidateLen == 10

\* A digit and a character that is none.
CandidateChars == {"7", "x"}

Candidates == UNION {[1..n -> CandidateChars] : n \in 0..MaxCandidateLen}

\* Nothing asked yet: `asked` holds the functions that have answered.
NotAsked ==
    [asked |-> {}, why |-> NullStr, plausible |-> FALSE,
     converted |-> [threw |-> FALSE, value |-> NullValue, message |-> NullStr]]

DomainStart ==
    /\ candidate = EmptyString
    /\ answers = NotAsked

WhyNotPlausibleCall ==
    /\ "why" \notin answers.asked
    /\ answers' = [answers EXCEPT !.asked = @ \cup {"why"},
                                  !.why = whyNotPlausibleCorpNo(candidate)]
    /\ UNCHANGED <<now, simpleVars, cacheVars, corpVars, formVars, ioVars, candidate>>

IsPlausibleCall ==
    /\ "plausible" \notin answers.asked
    /\ answers' = [answers EXCEPT !.asked = @ \cup {"plausible"},
                                  !.plausible = isPlausibleCorpNo(candidate)]
    /\ UNCHANGED <<now, simpleVars, cacheVars, corpVars, formVars, ioVars, candidate>>

ToPlausibleCall ==
    /\ "converted" \notin answers.asked
    /\ answers' = [answers EXCEPT !.asked = @ \cup {"converted"},
                                  !.converted = toPlausibleCorpNo(candidate)]
    /\ UNCHANGED <<now, simpleVars, cacheVars, corpVars, formVars, ioVars, candidate>>

\* ------------------------------------------------------------------------
\* Remote field machine: modules/fields/useCorpNoField.ts
\* ------------------------------------------------------------------------

\* The idleMs option, in clock ticks.
CorpIdleMs == 1

\* The cacheTtlMs option, in clock ticks.
CorpCacheTtlMs == 1

\* The delay of validateNow's defensive timeout, in clock ticks.
ValidateTimeoutMs == 2

\* `null` of currentRequestRef, of validationAwaiterRef and of an effect
\* that returned no cleanup; request and promise ids count from 1.
NoId == 0

\* Values typed into the corporation number field.
CorpValues == {EmptyString, <<"1", "2", "3">>, ValueA, ValueB}

CorpCreateInitialState ==
    [tag |-> "empty", value |-> EmptyString, lastUpdatedAt |-> 0,
     lastBlurAt |-> Null, lastCheckedAt |-> Null, localIssue |-> NullStr,
     remoteMessage |-> NullStr, currentValue |-> NullValue]

\* A change that keeps what the previous check left behind (mutant of CorpChange).
CorpChangeKeepRemote(state, event) ==
    [state EXCEPT !.tag = IF Len(event.value) = 0 THEN "empty" ELSE "active",
                  !.value = event.value,
                  !.lastUpdatedAt = event.timestamp,
                  !.localIssue = NullStr]

\* case "change"
CorpChange(state, event) ==
    IF Len(event.value) = 0
    THEN [tag |-> "empty", value |-> event.value,
          lastUpdatedAt |-> event.timestamp, lastBlurAt |-> state.lastBlurAt,
          lastCheckedAt |-> state.lastCheckedAt, localIssue |-> NullStr,
          remoteMessage |-> NullStr, currentValue |-> NullValue]
    ELSE [tag |-> "active", value |-> event.value,
          lastUpdatedAt |-> event.timestamp, lastBlurAt |-> state.lastBlurAt,
          lastCheckedAt |-> state.lastCheckedAt, localIssue |-> NullStr,
          remoteMessage |-> NullStr, currentValue |-> NullValue]

\* A blur that would count as an update of the field (mutant of CorpBlur).
CorpBlurTouches(state, event) ==
    [state EXCEPT !.lastBlurAt = event.timestamp,
                  !.lastUpdatedAt = event.timestamp]

\* case "blur"
CorpBlur(state, event) ==
    [state EXCEPT !.lastBlurAt = event.timestamp]

\* A focus that would also take a field that is being checked back to
\* active (mutant of CorpFocus).
CorpFocusFromChecking(state, event) ==
    IF state.tag \in {"invalid", "error", "implausible", "checking"}
    THEN [state EXCEPT !.tag = IF state.value # EmptyString THEN "active" ELSE "empty",
                       !.localIssue = NullStr,
                       !.remoteMessage = NullStr]
    ELSE state

\* case "focus"
CorpFocus(state, event) ==
    IF state.tag \in {"invalid", "error", "implausible"}
    THEN [state EXCEPT !.tag = IF state.value # EmptyString THEN "active" ELSE "empty",
                       !.localIssue = NullStr,
                       !.remoteMessage = NullStr]
    ELSE state

\* An evaluate that runs in whatever tag it arrives (mutant of CorpEvaluate).
CorpEvaluateUnguarded(state, event) ==
    LET localIssue == whyNotPlausibleCorpNo(state.value)
    IN IF localIssue # NullStr
       THEN [state EXCEPT !.tag = "implausible",
                          !.localIssue = localIssue,
                          !.lastUpdatedAt = event.timestamp]
       ELSE [state EXCEPT !.tag = "checking",
                          !.localIssue = NullStr,
                          !.currentValue = state.value,
                          !.lastUpdatedAt = event.timestamp]

\* An evaluate that would send every value of the right length to the
\* remote check, and every shorter one too (mutant of CorpEvaluate).
CorpEvaluateLenient(state, event) ==
    IF state.tag # "active" /\ state.tag # "implausible" THEN state
    ELSE IF Len(state.value) > CorpNoLength
         THEN [state EXCEPT !.tag = "implausible",
                            !.localIssue = "too_long",
                            !.lastUpdatedAt = event.timestamp]
         ELSE [state EXCEPT !.tag = "checking",
                            !.localIssue = NullStr,
                            !.currentValue = state.value,
                            !.lastUpdatedAt = event.timestamp]

\* case "evaluate"
CorpEvaluate(state, event) ==
    IF state.tag # "active" /\ state.tag # "implausible" THEN state
    ELSE LET localIssue == whyNotPlausibleCorpNo(state.value)
         IN IF localIssue # NullStr
            THEN [state EXCEPT !.tag = "implausible",
                               !.localIssue = localIssue,
                               !.lastUpdatedAt = event.timestamp]
            ELSE [state EXCEPT !.tag = "checking",
                               !.localIssue = NullStr,
                               !.currentValue = toPlausibleCorpNo(state.value).value,
                               !.lastUpdatedAt = event.timestamp]

\* case "remote:start"
CorpRemoteStart(state, event) ==
    IF state.tag # "checking" THEN state
    ELSE [state EXCEPT !.currentValue = event.currentValue,
                       !.lastUpdatedAt = event.timestamp]

\* A remote:ok that is applied in whatever tag it arrives (mutant of CorpRemoteOk).
CorpRemoteOkUnguarded(state, event) ==
    IF event.result.kind = "valid"
    THEN [state EXCEPT !.tag = "valid",
                       !.lastCheckedAt = event.timestamp,
                       !.lastUpdatedAt = event.timestamp,
                       !.remoteMessage = NullStr]
    ELSE state

\* case "remote:ok"
CorpRemoteOk(state, event) ==
    IF state.tag # "checking" THEN state
    ELSE IF event.result.kind = "valid"
         THEN [state EXCEPT !.tag = "valid",
                            !.lastCheckedAt = event.timestamp,
                            !.lastUpdatedAt = event.timestamp,
                            !.remoteMessage = NullStr]
         ELSE state

\* case "remote:invalid"
CorpRemoteInvalid(state, event) ==
    IF state.tag # "checking" THEN state
    ELSE IF event.result.kind = "invalid"
         THEN [state EXCEPT !.tag = "invalid",
                            !.lastCheckedAt = event.timestamp,
                            !.lastUpdatedAt = event.timestamp,
                            !.remoteMessage = event.result.message]
         ELSE state

\* case "remote:error"
CorpRemoteError(state, event) ==
    IF state.tag # "checking" THEN state
    ELSE IF event.result.kind = "error"
         THEN [state EXCEPT !.tag = "error",
                            !.lastCheckedAt = event.timestamp,
                            !.lastUpdatedAt = event.timestamp,
                            !.remoteMessage =
                                IF event.result.message # NullStr
                                THEN event.result.message
                                ELSE event.result.error \o " error occurred"]
         ELSE state

corpNoFieldReducer(state, event) ==
    CASE event.type = "change"         -> CorpChange(state, event)
      [] event.type = "blur"           -> CorpBlur(state, event)
      [] event.type = "focus"          -> CorpFocus(state, event)
      [] event.type = "evaluate"       -> CorpEvaluate(state, event)
      [] event.type = "remote:start"   -> CorpRemoteStart(state, event)
      [] event.type = "remote:ok"      -> CorpRemoteOk(state, event)
      [] event.type = "remote:invalid" -> CorpRemoteInvalid(state, event)
      [] event.type = "remote:error"   -> CorpRemoteError(state, event)

\* The event that reports `result`, obtained for the number forValue.
RemoteEvent(result, forValue) ==
    [type |-> IF result.kind = "valid" THEN "remote:ok"
              ELSE IF result.kind = "invalid" THEN "remote:invalid"
              ELSE "remote:error",
     result |-> result, timestamp |-> now, forValue |-> forValue]

\* The hook between two tasks, as one record: the reducer state, the refs,
\* the requests issued so far (requestIdCounter is their number), the
\* promises validateNow returned, the cache, and the events dispatched but
\* not yet rendered.
CorpHook ==
    [state |-> corpState, idle |-> corpIdle, blurEval |-> corpBlurEval,
     prevBlur |-> corpPrevBlur, currentRequest |-> currentRequest,
     requests |-> requests, remoteCleanup |-> remoteCleanup,
     awaiter |-> awaiter, promises |-> promises,
     cache |-> cache, written |-> written, verdictFor |-> verdictFor,
     pending |-> <<>>]

\* dispatch(event)
Dispatch(h, event) == [h EXCEPT !.pending = Append(@, event)]

\* validationAwaiterRef.current.resolve(isValid); validationAwaiterRef.current = null
ResolveAwaiter(h, isValid) ==
    IF h.awaiter = NoId THEN h
    ELSE [h EXCEPT !.promises[h.awaiter].status =
                        IF @ = "pending" THEN isValid ELSE @,
                   !.awaiter = NoId]

\* An abort that never reaches the controller (mutant of ControllerAbort).
ControllerAbortLost(reqs, id) == reqs

\* if (currentRequestRef.current) currentRequestRef.current.controller.abort()
ControllerAbort(reqs, id) ==
    IF id = NoId THEN reqs ELSE [reqs EXCEPT ![id].aborted = TRUE]

\* currentRequestRef.current.controller.abort(); currentRequestRef.current = null
AbortCurrentRequest(h) ==
    [h EXCEPT !.requests = ControllerAbort(h.requests, h.currentRequest),
              !.currentRequest = NoId]

\* cache.set(currentValue, result, cacheTtlMs)
CacheWrite(h, key, result) ==
    [h EXCEPT !.cache = CacheSet(h.cache, key, result, CorpCacheTtlMs, now),
              !.written = MapSet(h.written, key,
                              [result |-> result, expiresAt |-> now + CorpCacheTtlMs])]

\* The reducer applied to the batch of dispatched events, with the number
\* whose verdict was applied last.
RECURSIVE ApplyEvents(_, _, _)
ApplyEvents(state, verdict, events) ==
    IF events = <<>> THEN [state |-> state, verdictFor |-> verdict]
    ELSE LET event == Head(events)
             new == corpNoFieldReducer(state, event)
         IN ApplyEvents(new,
                        IF event.type \in {"remote:ok", "remote:invalid", "remote:error"}
                           /\ new # state
                        THEN event.forValue ELSE verdict,
                        Tail(events))

\* Idle effect, deps [state.tag, state.lastUpdatedAt, idleMs].
CorpIdleEffect(old, h) ==
    IF old.tag = h.state.tag /\ old.lastUpdatedAt = h.state.lastUpdatedAt
    THEN h
    ELSE [h EXCEPT !.idle = IF h.state.tag \in {"active", "implausible"}
                            THEN now + CorpIdleMs ELSE Null]

\* A blur effect that would schedule evaluate in tag active only, as the
\* local field does.
CorpBlurEffectActiveOnly(old, h) ==
    IF old.lastBlurAt = h.state.lastBlurAt /\ old.tag = h.state.tag
    THEN h
    ELSE [h EXCEPT !.blurEval = /\ h.state.lastBlurAt # h.prevBlur
                                /\ h.state.lastBlurAt # Null
                                /\ h.state.tag = "active",
                   !.prevBlur = h.state.lastBlurAt]

\* Blur effect, deps [state.lastBlurAt, state.tag].
CorpBlurEffect(old, h) ==
    IF old.lastBlurAt = h.state.lastBlurAt /\ old.tag = h.state.tag
    THEN h
    ELSE [h EXCEPT !.blurEval = /\ h.state.lastBlurAt # h.prevBlur
                                /\ h.state.lastBlurAt # Null
                                /\ h.state.tag \in {"active", "implausible"},
                   !.prevBlur = h.state.lastBlurAt]

\* The cleanup the remote effect returned on its previous run.
RemoteEffectCleanup(h) ==
    IF h.remoteCleanup # NoId /\ h.currentRequest = h.remoteCleanup
    THEN [AbortCurrentRequest(h) EXCEPT !.remoteCleanup = NoId]
    ELSE [h EXCEPT !.remoteCleanup = NoId]

\* The remote effect from "Abort any existing request" on.  performRequest
\* runs up to its first await: without a fetcher it reports the fallback
\* error at once and never calls the adapter.
StartRequest(h, currentValue) ==
    LET requestId == Len(h.requests) + 1
        aborted == ControllerAbort(h.requests, h.currentRequest)
        started == [h EXCEPT
                      !.requests = Append(aborted,
                          [currentValue |-> currentValue, aborted |-> FALSE,
                           status |-> IF fetcher = "function" THEN "pending"
                                      ELSE "unfetched"]),
                      !.currentRequest = requestId,
                      !.remoteCleanup = requestId,
                      !.pending = Append(@, [type |-> "remote:start",
                                             currentValue |-> currentValue,
                                             timestamp |-> now])]
    IN IF fetcher = "function" THEN started
       ELSE ResolveAwaiter(
                Dispatch(started,
                    RemoteEvent(ResultError("network", "fetcher is not a function"),
                                currentValue)),
                "false")

\* A remote effect that goes to the adapter without consulting the cache
\* (mutant of RemoteEffectBody).
RemoteEffectBodyNoCache(h) ==
    IF h.state.tag = "checking" /\ h.state.currentValue \notin {NullValue, EmptyString}
    THEN StartRequest(h, h.state.currentValue)
    ELSE h

\* The body of the remote effect.
RemoteEffectBody(h) ==
    IF h.state.tag = "checking" /\ h.state.currentValue \notin {NullValue, EmptyString}
    THEN LET currentValue == h.state.currentValue
             got == CacheGet(h.cache, currentValue, now)
             looked == [h EXCEPT !.cache = got.cache]
         IN IF got.result # Undefined
            THEN ResolveAwaiter(
                     Dispatch(looked, RemoteEvent(got.result, currentValue)),
                     IF got.result.kind = "valid" THEN "true" ELSE "false")
            ELSE StartRequest(looked, currentValue)
    ELSE h

\* Remote effect, deps [state.tag, state.currentValue, fetcher, cache, cacheTtlMs].
CorpRemoteEffect(old, h) ==
    IF old.tag = h.state.tag /\ old.currentValue = h.state.currentValue
    THEN h
    ELSE RemoteEffectBody(RemoteEffectCleanup(h))

\* An abort-on-change effect that forgets the awaiter (mutant of CorpAbortEffect).
CorpAbortEffectKeepAwaiter(old, h) ==
    IF old.tag = h.state.tag /\ old.value = h.state.value
    THEN h
    ELSE IF h.state.tag \in {"active", "empty"}
         THEN AbortCurrentRequest(h)
         ELSE h

\* Abort-on-change effect, deps [state.tag, state.value].
CorpAbortEffect(old, h) ==
    IF old.tag = h.state.tag /\ old.value = h.state.value
    THEN h
    ELSE IF h.state.tag \in {"active", "empty"}
         THEN ResolveAwaiter(AbortCurrentRequest(h), "false")
         ELSE h

\* React after a task: the batch of dispatched events is reduced, the state
\* committed and the effects run; what the effects dispatched is rendered
\* in turn.
RECURSIVE CorpRender(_)
CorpRender(h) ==
    IF h.pending = <<>> THEN h
    ELSE LET old == h.state
             applied == ApplyEvents(old, h.verdictFor, h.pending)
             committed == [h EXCEPT !.state = applied.state,
                                    !.verdictFor = applied.verdictFor,
                                    !.pending = <<>>]
         IN CorpRender(
                CorpAbortEffect(old,
                    CorpRemoteEffect(old,
                        CorpBlurEffect(old,
                            CorpIdleEffect(old, committed)))))

\* The hook after the task that left it as h: the variables of the next state.
CorpCommit(h) ==
    LET r == CorpRender(h)
    IN /\ Len(r.requests) <= MaxRequests
       /\ corpState' = r.state
       /\ corpIdle' = r.idle
       /\ corpBlurEval' = r.blurEval
       /\ corpPrevBlur' = r.prevBlur
       /\ currentRequest' = r.currentRequest
       /\ requests' = r.requests
       /\ remoteCleanup' = r.remoteCleanup
       /\ awaiter' = r.awaiter
       /\ promises' = r.promises
       /\ cache' = r.cache
       /\ written' = r.written
       /\ verdictFor' = r.verdictFor

\* onChange
CorpOnChangeTo(values) ==
    /\ \E v \in values :
         CorpCommit(Dispatch(CorpHook,
                             [type |-> "change", value |-> v, timestamp |-> now]))
    /\ UNCHANGED <<now, ioVars, domainVars, formVars, simpleVars, cacheInterval, fetcher>>

CorpOnChange == CorpOnChangeTo(CorpValues)

\* onBlur
CorpOnBlur ==
    /\ CorpCommit(Dispatch(CorpHook, [type |-> "blur", timestamp |-> now]))
    /\ UNCHANGED <<now, ioVars, domainVars, formVars, simpleVars, cacheInterval, fetcher>>

\* onFocus
CorpOnFocus ==
    /\ CorpCommit(Dispatch(CorpHook, [type |-> "focus", timestamp |-> now]))
    /\ UNCHANGED <<now, ioVars, domainVars, formVars, simpleVars, cacheInterval, fetcher>>

\* The executor of the promise validateNow returns; state.tag is the tag of
\* the render the callback was created in.
ValidateNowExecutor(h, tag) ==
    LET id == Len(h.promises) + 1
    IN IF tag = "valid"
       THEN [h EXCEPT !.promises = Append(@, [status |-> "true", timer |-> Null])]
       ELSE IF tag \in {"invalid", "error", "implausible"}
       THEN [h EXCEPT !.promises = Append(@, [status |-> "false", timer |-> Null])]
       ELSE [h EXCEPT !.promises = Append(@, [status |-> "pending",
                                              timer |-> now + ValidateTimeoutMs]),
                      !.awaiter = id]

\* validateNow, called while fewer than maxPromises promises were returned.
ValidateNowCall(maxPromises) ==
    /\ Len(promises) < maxPromises
    /\ CorpCommit(ValidateNowExecutor(
                      Dispatch(CorpHook, [type |-> "evaluate", timestamp |-> now]),
                      corpState.tag))
    /\ UNCHANGED <<now, ioVars, domainVars, formVars, simpleVars, cacheInterval, fetcher>>

\* validateNow
CorpValidateNow == ValidateNowCall(MaxPromises)

\* A reset that only dispatches the change to "" and leaves the rest to
\* the effects (mutant of ResetTask).
ResetTaskDispatchOnly(h) ==
    Dispatch(h, [type |-> "change", value |-> EmptyString, timestamp |-> now])

\* The body of reset: abort and forget the request, resolve the awaiter
\* false, dispatch a change to "".
ResetTask(h) ==
    Dispatch(ResolveAwaiter(AbortCurrentRequest(h), "false"),
             [type |-> "change", value |-> EmptyString, timestamp |-> now])

\* reset
CorpReset ==
    /\ CorpCommit(ResetTask(CorpHook))
    /\ UNCHANGED <<now, ioVars, domainVars, formVars, simpleVars, cacheInterval, fetcher>>

\* The idle timer's callback.
CorpIdleFire ==
    /\ corpIdle # Null
    /\ now >= corpIdle
    /\ CorpCommit(Dispatch([CorpHook EXCEPT !.idle = Null],
                           [type |-> "evaluate", timestamp |-> now]))
    /\ UNCHANGED <<now, ioVars, domainVars, formVars, simpleVars, cacheInterval, fetcher>>

\* The blur effect's setTimeout(..., 0) callback.
CorpBlurEvalFire ==
    /\ corpBlurEval
    /\ CorpCommit(Dispatch([CorpHook EXCEPT !.blurEval = FALSE],
                           [type |-> "evaluate", timestamp |-> now]))
    /\ UNCHANGED <<now, ioVars, domainVars, formVars, simpleVars, cacheInterval, fetcher>>

\* A continuation that applies the result without asking whether its
\* request is still the current one (mutant of FetchContinuation).
FetchContinuationUnchecked(h, requestId, result) ==
    LET currentValue == h.requests[requestId].currentValue
        cached == IF result.kind \in {"valid", "invalid"}
                  THEN CacheWrite(h, currentValue, result) ELSE h
    IN ResolveAwaiter(Dispatch(cached, RemoteEvent(result, currentValue)),
                      IF result.kind = "valid" THEN "true" ELSE "false")

\* A continuation that stores whatever the adapter returned (mutant of
\* FetchContinuation).
FetchContinuationCacheAll(h, requestId, result) ==
    LET currentValue == h.requests[requestId].currentValue
    IN IF h.currentRequest = requestId /\ ~h.requests[requestId].aborted
       THEN ResolveAwaiter(
                Dispatch(CacheWrite(h, currentValue, result),
                         RemoteEvent(result, currentValue)),
                IF result.kind = "valid" THEN "true" ELSE "false")
       ELSE h

\* A continuation that tells the awaiter "valid" whatever the adapter
\* returned (mutant of FetchContinuation).
FetchContinuationResolveTrue(h, requestId, result) ==
    LET currentValue == h.requests[requestId].currentValue
    IN IF h.currentRequest = requestId /\ ~h.requests[requestId].aborted
       THEN LET cached == IF result.kind \in {"valid", "invalid"}
                          THEN CacheWrite(h, currentValue, result) ELSE h
            IN ResolveAwaiter(Dispatch(cached, RemoteEvent(result, currentValue)),
                              "true")
       ELSE h

\* A continuation that would cache the verdict before asking whether its
\* request is still the current one (mutant of FetchContinuation).
FetchContinuationCachesFirst(h, requestId, result) ==
    LET currentValue == h.requests[requestId].currentValue
        cached == IF result.kind \in {"valid", "invalid"}
                  THEN CacheWrite(h, currentValue, result) ELSE h
    IN IF h.currentRequest = requestId /\ ~h.requests[requestId].aborted
       THEN ResolveAwaiter(Dispatch(cached, RemoteEvent(result, currentValue)),
                           IF result.kind = "valid" THEN "true" ELSE "false")
       ELSE cached

\* performRequest after `await fetcher(currentValue, controller.signal)`.
FetchContinuation(h, requestId, result) ==
    LET currentValue == h.requests[requestId].currentValue
    IN IF h.currentRequest = requestId /\ ~h.requests[requestId].aborted
       THEN LET cached == IF result.kind \in {"valid", "invalid"}
                          THEN CacheWrite(h, currentValue, result) ELSE h
            IN ResolveAwaiter(Dispatch(cached, RemoteEvent(result, currentValue)),
                              IF result.kind = "valid" THEN "true" ELSE "false")
       ELSE h

\* The fetcher's promise resolves.
CorpFetchResolve ==
    /\ \E id \in 1..Len(requests) :
         /\ requests[id].status = "pending"
         /\ \E result \in ResultsFor(requests[id].currentValue) :
              CorpCommit(FetchContinuation(
                  [CorpHook EXCEPT !.requests[id].status = "settled"], id, result))
    /\ UNCHANGED <<now, ioVars, domainVars, formVars, simpleVars, cacheInterval, fetcher>>

\* A catch block that swallows the rejection (mutant of FetchCatch).
FetchCatchSilent(h, requestId) == h

\* The catch block of performRequest.
FetchCatch(h, requestId) ==
    IF ~h.requests[requestId].aborted /\ h.currentRequest = requestId
    THEN ResolveAwaiter(
             Dispatch(h, RemoteEvent(ResultError("network", "Network error"),
                                     h.requests[requestId].currentValue)),
             "false")
    ELSE h

\* The fetcher's promise rejects.
CorpFetchReject ==
    /\ \E id \in 1..Len(requests) :
         /\ requests[id].status = "pending"
         /\ CorpCommit(FetchCatch(
                [CorpHook EXCEPT !.requests[id].status = "settled"], id))
    /\ UNCHANGED <<now, ioVars, domainVars, formVars, simpleVars, cacheInterval, fetcher>>

\* The callback of validateNow's defensive timeout.
CorpValidateTimeoutFire ==
    /\ \E id \in 1..Len(promises) :
         /\ promises[id].timer # Null
         /\ now >= promises[id].timer
         /\ IF awaiter = id
            THEN /\ awaiter' = NoId
                 /\ promises' = [promises EXCEPT ![id].timer = Null,
                                                 ![id].status =
                                                    IF @ = "pending" THEN "false" ELSE @]
            ELSE /\ awaiter' = awaiter
                 /\ promises' = [promises EXCEPT ![id].timer = Null]
    /\ UNCHANGED <<now, ioVars, domainVars, formVars, simpleVars, cacheVars, fetcher, corpState, corpIdle,
                   corpBlurEval, corpPrevBlur, currentRequest, requests,
                   remoteCleanup, verdictFor>>

\* ------------------------------------------------------------------------
\* I/O adapters: modules/io/postProfileDetails.ts, modules/io/corpFetcher.ts
\* ------------------------------------------------------------------------

\* Values fetch rejects with, and values the adapters throw.
AbortError == [name |-> "AbortError", message |-> "The operation was aborted"]
FailedToFetch == [name |-> "TypeError", message |-> "Failed to fetch"]
TimeoutMessage == [name |-> "Error", message |-> "timeout"]
SyntaxError == [name |-> "SyntaxError", message |-> "Unexpected token"]
CancelledError == [name |-> "Error", message |-> "Request was cancelled"]
NoError == [name |-> NullStr, message |-> NullStr]

FetchErrors == {AbortError, FailedToFetch, TimeoutMessage}

\* error.message.includes("timeout") and error.message.includes("Failed to
\* fetch") || error.message.includes("NetworkError"), over the messages above.
IncludesTimeout(message) == message \in {"timeout"}
IncludesNetwork(message) == message \in {"Failed to fetch"}

\* Bodies of a response: response.json() throws, or gives an object with or
\* without the fields valid, corporationNumber and message.
Body(parseable, valid, legacy, message) ==
    [parseable |-> parseable, valid |-> valid, corporationNumber |-> legacy,
     message |-> message]

Bodies ==
    {Body(FALSE, "absent", FALSE, NullStr),
     Body(TRUE, "true", FALSE, NullStr),
     Body(TRUE, "false", FALSE, NullStr),
     Body(TRUE, "false", FALSE, "Not registered"),
     Body(TRUE, "absent", TRUE, NullStr),
     Body(TRUE, "absent", FALSE, NullStr),
     Body(TRUE, "absent", FALSE, "Not registered")}

Statuses == {200, 400, 404, 409, 422, 500, 503}

\* response.ok
ResponseOk(response) == response.status >= 200 /\ response.status <= 299

\* How a fetch settles: with a response, or with a rejection.
Resolves(status, body) ==
    [kind |-> "response", status |-> status, body |-> body, error |-> NoError]
Rejects(error) ==
    [kind |-> "rejection", status |-> 0,
     body |-> Body(FALSE, "absent", FALSE, NullStr), error |-> error]

Responses == {Resolves(status, body) : status \in Statuses, body \in Bodies}

FetchSettlements == Responses \cup {Rejects(error) : error \in FetchErrors}

\* How a fetch whose signal is aborted settles: a fetch that follows the
\* signal rejects with an AbortError; the adapters also provide for a
\* response that arrives all the same (postProfileDetails, line 87).
FetchSettlementsAfterAbort == Responses \cup {Rejects(AbortError)}

\* What a call of an adapter comes to: a value returned, or a value thrown.
Returned(value) == [outcome |-> "returned", value |-> value, error |-> NoError]
Thrown(error) == [outcome |-> "thrown", value |-> <<>>, error |-> error]

ResultOk == [ok |-> TRUE, message |-> NullStr]
ResultNotOk(message) == [ok |-> FALSE, message |-> message]

\* x || fallback, for a message that is absent
OrElse(message, fallback) == IF message = NullStr THEN fallback ELSE message

\* The catch block of postProfileDetails.
PostCatch(error, signalAborted) ==
    IF signalAborted THEN Thrown(error)
    ELSE IF error.name = "AbortError" THEN Thrown(error)
    ELSE IF IncludesTimeout(error.message) \/ error.name = "TimeoutError"
    THEN Returned(ResultNotOk("Request timed out. Please try again."))
    ELSE IF IncludesNetwork(error.message) \/ error.name = "TypeError"
    THEN Returned(ResultNotOk(
             "Network connection failed. Please check your internet connection."))
    ELSE Returned(ResultNotOk("An unexpected error occurred. Please try again."))

\* The message for a response whose body cannot be parsed.
PostStatusMessage(status) ==
    IF status >= 500 THEN "Server error occurred. Please try again later."
    ELSE IF status = 400 THEN "Invalid form data. Please check your inputs."
    ELSE IF status = 409 THEN "This information has already been submitted."
    ELSE "Request failed with status " \o ToString(status)

\* errorMessage of an error response, once response.json() has settled.
PostErrorMessage(response) ==
    IF response.body.parseable
    THEN OrElse(response.body.message, "Submission failed")
    ELSE PostStatusMessage(response.status)

\* postProfileDetails once response.json() has rejected, for a body that is
\* not JSON or because the signal was aborted while the body was read: the
\* inner catch.
PostOnJsonError(response) ==
    Returned(ResultNotOk(PostStatusMessage(response.status)))

\* postProfileDetails from the settlement of its fetch to its end.
\* combinedAborted is combinedSignal.aborted when the response arrives,
\* signalAborted is signal.aborted when the catch block runs.
PostSettle(settlement, combinedAborted, signalAborted) ==
    IF settlement.kind = "rejection"
    THEN PostCatch(settlement.error, signalAborted)
    ELSE IF combinedAborted THEN PostCatch(CancelledError, signalAborted)
    ELSE IF ResponseOk(settlement) THEN Returned(ResultOk)
    ELSE Returned(ResultNotOk(PostErrorMessage(settlement)))

\* The catch block of corpFetcher.
CorpCatch(error, signalAborted) ==
    IF signalAborted THEN Thrown(error)
    ELSE IF error.name = "AbortError" THEN Thrown(error)
    ELSE IF IncludesTimeout(error.message) \/ error.name = "TimeoutError"
    THEN Returned(ResultError("timeout", "Request timed out"))
    ELSE IF IncludesNetwork(error.message) \/ error.name = "TypeError"
    THEN Returned(ResultError("network", "Network connection failed"))
    ELSE Returned(ResultError("network", "An unexpected network error occurred"))

\* corpFetcher on a response it need not read the body of; NoOutcome when it
\* goes on to await response.json().
NoOutcome == [outcome |-> "none", value |-> <<>>, error |-> NoError]

CorpOnResponse(response) ==
    IF ResponseOk(response) THEN NoOutcome
    ELSE IF response.status >= 500
    THEN Returned(ResultError("server",
             "Server error (" \o ToString(response.status) \o ")"))
    ELSE IF response.status \in {404, 400} THEN NoOutcome
    ELSE Returned(ResultError("server", "HTTP " \o ToString(response.status)))

\* corpFetcher once response.json() has resolved with the parsed body.
CorpOnData(cn, response) ==
    IF ~ResponseOk(response)
    THEN Returned(ResultInvalid(OrElse(response.body.message,
                                       "Corporation number not found")))
    ELSE IF response.body.valid = "true" THEN Returned(ResultValid(cn))
    ELSE IF response.body.valid = "false"
    THEN Returned(ResultInvalid(OrElse(response.body.message,
                                       "Invalid corporation number")))
    ELSE IF response.body.corporationNumber THEN Returned(ResultValid(cn))
    ELSE Returned(ResultInvalid(OrElse(response.body.message,
                                       "Corporation number validation failed")))

\* corpFetcher once response.json() has rejected with `error`: the inner
\* catch for status 400 and 404, the outer catch for a 2xx response.
CorpOnJsonError(response, error, signalAborted) ==
    IF ~ResponseOk(response)
    THEN Returned(ResultInvalid("Corporation number not found"))
    ELSE CorpCatch(error, signalAborted)

\* postProfileDetails on a response; NoOutcome when it goes on to await
\* response.json().
PostOnResponse(response, combinedAborted, signalAborted) ==
    IF combinedAborted THEN PostCatch(CancelledError, signalAborted)
    ELSE IF ResponseOk(response) THEN Returned(ResultOk)
    ELSE NoOutcome

\* ---- cancellation signals: modules/io/abort.ts ----

\* The most signals composed at once.
MaxSignals == 4

\* The least element of a non-empty set of numbers.
Least(S) == CHOOSE k \in S : \A j \in S : k <= j

\* A composite that forgets to look at signals already aborted (mutant of
\* composeAbortSignal).
composeListenersOnly(signals, any) ==
    [aborted |-> FALSE, listens |-> DOMAIN signals,
     composedAborted |-> FALSE]

\* composeAbortSignal(signals): signals[i] is signals[i].aborted, `any` says
\* whether AbortSignal.any exists.  The composite: its aborted flag and the
\* inputs whose abort event reaches it; composedAborted remembers the flag
\* it was returned with.
composeAbortSignal(signals, any) ==
    LET fired == {i \in DOMAIN signals : signals[i]}
    IN IF fired = {}
       THEN [aborted |-> FALSE, listens |-> DOMAIN signals,
             composedAborted |-> FALSE]
       ELSE [aborted |-> TRUE,
             listens |-> IF any THEN {}
                         ELSE {i \in DOMAIN signals : i < Least(fired)},
             composedAborted |-> TRUE]

\* Input i of the composite dispatches its abort event.
SignalFires(composite, i) ==
    IF i \in composite.listens
    THEN [composite EXCEPT !.aborted = TRUE, !.listens = @ \ {i}]
    ELSE composite

NoComposite == [aborted |-> FALSE, listens |-> {}, composedAborted |-> FALSE]

\* ---- the adapters and their timers, one call at a time ----

NoSettlement == Rejects(NoError)

IoIdle ==
    [adapter |-> "none", pc |-> "idle", settlement |-> NoSettlement,
     timedOut |-> FALSE, result |-> NoOutcome]

IoStart ==
    /\ hasAny = TRUE
    /\ ioSignal = FALSE
    /\ ioCall = IoIdle
    /\ ioTimer = FALSE
    /\ ioController = FALSE
    /\ ioCombined = NoComposite
    /\ sigInputs = <<>>
    /\ sigComposite = NoComposite
    /\ sigComposed = FALSE

\* withTimeoutSignal(signal, timeoutMs): the timer is armed and the caller's
\* signal (input 1) is composed with the signal of the timeout controller
\* (input 2).
withTimeoutSignal ==
    /\ ioTimer' = TRUE
    /\ ioController' = FALSE
    /\ ioCombined' = composeAbortSignal(<<ioSignal, FALSE>>, hasAny)

\* corpFetcher(corporationNumber, signal) up to its await of fetch.
IoCorpFetcherCall ==
    /\ ioCall.pc = "idle"
    /\ withTimeoutSignal
    /\ ioCall' = [ioCall EXCEPT !.adapter = "corpFetcher", !.pc = "fetching"]
    /\ UNCHANGED <<hasAny, ioSignal, sigVars>>
    /\ UNCHANGED <<now, simpleVars, cacheVars, corpVars, formVars, domainVars>>

\* postProfileDetails(payload, signal) up to its await of fetch: without
\* AbortSignal.any the signal handed to fetch is the caller's own.
IoPostCall ==
    /\ ioCall.pc = "idle"
    /\ ioTimer' = TRUE
    /\ ioController' = FALSE
    /\ ioCombined' = IF hasAny THEN composeAbortSignal(<<ioSignal, FALSE>>, TRUE)
                     ELSE [aborted |-> ioSignal, listens |-> {1},
                           composedAborted |-> ioSignal]
    /\ ioCall' = [ioCall EXCEPT !.adapter = "postProfileDetails",
                                !.pc = "fetching"]
    /\ UNCHANGED <<hasAny, ioSignal, sigVars>>
    /\ UNCHANGED <<now, simpleVars, cacheVars, corpVars, formVars, domainVars>>

\* The caller aborts its controller.
IoCallerAbort ==
    /\ ~ioSignal
    /\ ioSignal' = TRUE
    /\ ioCombined' = SignalFires(ioCombined, 1)
    /\ UNCHANGED <<hasAny, ioCall, ioTimer, ioController, sigVars>>
    /\ UNCHANGED <<now, simpleVars, cacheVars, corpVars, formVars, domainVars>>

\* The callback of the adapter's setTimeout: the timeout controller aborts.
IoTimeoutFire ==
    /\ ioTimer
    /\ ioTimer' = FALSE
    /\ ioController' = TRUE
    /\ ioCombined' = SignalFires(ioCombined, 2)
    /\ ioCall' = [ioCall EXCEPT !.timedOut = @ \/ ioCall.pc \in {"fetching", "parsing"}]
    /\ UNCHANGED <<hasAny, ioSignal, sigVars>>
    /\ UNCHANGED <<now, simpleVars, cacheVars, corpVars, formVars, domainVars>>

\* The awaited fetch resolves with a response: the timer is cleared, and the
\* adapter returns or goes on to read the body.
IoFetchResolve ==
    /\ ioCall.pc = "fetching"
    /\ \E response \in Responses :
         LET result == IF ioCall.adapter = "corpFetcher"
                       THEN CorpOnResponse(response)
                       ELSE PostOnResponse(response, ioCombined.aborted, ioSignal)
         IN ioCall' = [ioCall EXCEPT
                          !.pc = IF result = NoOutcome THEN "parsing" ELSE "done",
                          !.settlement = response,
                          !.result = result]
    /\ ioTimer' = FALSE
    /\ UNCHANGED <<hasAny, ioSignal, ioController, ioCombined, sigVars>>
    /\ UNCHANGED <<now, simpleVars, cacheVars, corpVars, formVars, domainVars>>

\* The awaited fetch rejects: with an AbortError when its signal is aborted,
\* with another error when it is not.  The catch block runs.
IoFetchReject ==
    /\ ioCall.pc = "fetching"
    /\ \E error \in IF ioCombined.aborted THEN {AbortError}
                    ELSE FetchErrors \ {AbortError} :
         ioCall' = [ioCall EXCEPT
                       !.pc = "done",
                       !.settlement = Rejects(error),
                       !.result = IF ioCall.adapter = "corpFetcher"
                                  THEN CorpCatch(error, ioSignal)
                                  ELSE PostCatch(error, ioSignal)]
    /\ UNCHANGED <<hasAny, ioSignal, ioTimer, ioController, ioCombined, sigVars>>
    /\ UNCHANGED <<now, simpleVars, cacheVars, corpVars, formVars, domainVars>>

\* The awaited response.json() settles: with the parsed body, with a
\* SyntaxError when the body is not JSON, or with an AbortError when the
\* signal of the fetch was aborted while the body was read.
IoJsonSettle ==
    /\ ioCall.pc = "parsing"
    /\ LET response == ioCall.settlement
           errors == (IF response.body.parseable THEN {} ELSE {SyntaxError})
                     \cup (IF ioCombined.aborted THEN {AbortError} ELSE {})
       IN \/ /\ response.body.parseable
             /\ ioCall' = [ioCall EXCEPT
                   !.pc = "done",
                   !.result = IF ioCall.adapter = "corpFetcher"
                              THEN CorpOnData(ValueA, response)
                              ELSE Returned(ResultNotOk(PostErrorMessage(response)))]
          \/ \E error \in errors :
               ioCall' = [ioCall EXCEPT
                   !.pc = "done",
                   !.result = IF ioCall.adapter = "corpFetcher"
                              THEN CorpOnJsonError(response, error, ioSignal)
                              ELSE PostOnJsonError(response)]
    /\ UNCHANGED <<hasAny, ioSignal, ioTimer, ioController, ioCombined, sigVars>>
    /\ UNCHANGED <<now, simpleVars, cacheVars, corpVars, formVars, domainVars>>

\* ---- composeAbortSignal on its own ----

\* composeAbortSignal(signals) is called.
SignalCompose ==
    /\ ~sigComposed
    /\ sigComposed' = TRUE
    /\ sigComposite' = composeAbortSignal(sigInputs, hasAny)
    /\ UNCHANGED <<hasAny, sigInputs, adapterVars>>
    /\ UNCHANGED <<now, simpleVars, cacheVars, corpVars, formVars, domainVars>>

\* An input signal that has not fired fires.
SignalAbort ==
    /\ \E i \in DOMAIN sigInputs :
         /\ ~sigInputs[i]
         /\ sigInputs' = [sigInputs EXCEPT ![i] = TRUE]
         /\ sigComposite' = IF sigComposed THEN SignalFires(sigComposite, i)
                            ELSE sigComposite
    /\ UNCHANGED <<hasAny, sigComposed, adapterVars>>
    /\ UNCHANGED <<now, simpleVars, cacheVars, corpVars, formVars, domainVars>>

\* ------------------------------------------------------------------------
\* Simple-field validators: modules/domain/simple.ts
\* ------------------------------------------------------------------------

\* Characters \p{L} matches, and characters \s matches.
NameLetters == {"A", "l"}
Whitespace == {" "}

RECURSIVE TrimStart(_)
TrimStart(s) ==
    IF s # <<>> /\ Head(s) \in Whitespace THEN TrimStart(Tail(s)) ELSE s

RECURSIVE TrimEnd(_)
TrimEnd(s) ==
    IF s # <<>> /\ Last(s) \in Whitespace
    THEN TrimEnd(SubSeq(s, 1, Len(s) - 1)) ELSE s

\* String.prototype.trim
Trim(s) == TrimEnd(TrimStart(s))

isValidName(s) ==
    LET trimmed == Trim(s)
    IN IF Len(trimmed) = 0 \/ Len(trimmed) > 50
       THEN FALSE
       ELSE \A i \in 1..Len(trimmed) :
                trimmed[i] \in NameLetters \cup Whitespace \cup {"'", "-"}

\* /^\+1\d{10}$/
isValidPhoneCA(s) ==
    IF Len(s) # 12 THEN FALSE
    ELSE /\ s[1] = "+"
         /\ s[2] = "1"
         /\ \A i \in 3..12 : s[i] \in Digits

\* ------------------------------------------------------------------------
\* Form orchestrator: modules/forms/useOnboardingForm.ts
\* ------------------------------------------------------------------------

\* The simple fields: useNameField twice and usePhoneField, each a
\* useSimpleField with its validator.
FieldNames == {"firstName", "lastName", "phone"}

NameGood == <<" ", "A", "l">>
PhoneGood == <<"+", "1", "5", "5", "5", "1", "2", "3", "4", "5", "6", "7">>

\* Values typed into the name fields and into the phone field.
NameValues == {EmptyString, NameGood}
PhoneValues == {EmptyString, PhoneGood}

FieldValues(f) == IF f = "phone" THEN PhoneValues ELSE NameValues

\* Values typed into the corporation number field of the form.
FormCorpValues == {ValueA}

\* The validator options of the three fields as one predicate: a name field
\* is given name values only and the phone field phone values only, and both
\* validators reject the empty string.
FormValidator ==
    [v \in NameValues \cup PhoneValues |->
        IF v \in NameValues THEN isValidName(v) ELSE isValidPhoneCA(v)]

\* The state of a simple field of the form: the reducer's state without its
\* two timestamps, which only the field's own timers read.
FieldView(state) ==
    [tag |-> state.tag, value |-> state.value, issue |-> state.issue]

FieldReduce(state, event) ==
    FieldView(simpleFieldReducer(
        [tag |-> state.tag, value |-> state.value, issue |-> state.issue,
         lastUpdatedAt |-> 0, lastBlurAt |-> Null], event))

\* isValid of useSimpleField and of useCorpNoField
FieldIsValid(state) == state.tag = "valid"
CorpIsValid(state) == state.tag = "valid"

NoCall == 0

\* A canSubmit that ignores isSubmitting (mutant of canSubmit).
canSubmitWhileSubmitting ==
    /\ FieldIsValid(formFields["firstName"])
    /\ FieldIsValid(formFields["lastName"])
    /\ FieldIsValid(formFields["phone"])
    /\ CorpIsValid(corpState)

canSubmit ==
    /\ FieldIsValid(formFields["firstName"])
    /\ FieldIsValid(formFields["lastName"])
    /\ FieldIsValid(formFields["phone"])
    /\ CorpIsValid(corpState)
    /\ ~isSubmitting

\* The form, mounted and left alone.
FormStart ==
    /\ formFields = [f \in FieldNames |-> FieldView(SimpleCreateInitialState)]
    /\ isSubmitting = FALSE
    /\ formError = NullStr
    /\ abortControllerRef = NoCall
    /\ calls = <<>>
    /\ posts = <<>>

\* A continuation of validateAll or submit is queued as a microtask: the
\* promise the call awaits is resolved.  Microtasks run before the next task.
FormMicrotaskReady ==
    \E i \in 1..Len(calls) :
        /\ calls[i].pc = "awaiting"
        /\ promises[calls[i].promise].status # "pending"

\* onChange of a simple field
FormFieldOnChange ==
    /\ \E f \in FieldNames : \E v \in FieldValues(f) :
         formFields' = [formFields EXCEPT ![f] =
             FieldReduce(@, [type |-> "change", value |-> v, timestamp |-> now])]
    /\ UNCHANGED <<now, ioVars, domainVars, simpleVars, cacheVars, corpVars, isSubmitting, formError,
                   abortControllerRef, calls, posts>>

\* onFocus of a simple field
FormFieldOnFocus ==
    /\ \E f \in FieldNames :
         formFields' = [formFields EXCEPT ![f] =
             FieldReduce(@, [type |-> "focus", timestamp |-> now])]
    /\ UNCHANGED <<now, ioVars, domainVars, simpleVars, cacheVars, corpVars, isSubmitting, formError,
                   abortControllerRef, calls, posts>>

\* A timer of a simple field fires and dispatches evaluate: the idle timer,
\* armed in tag active, or the zero-delay timeout of a blur in tag active or
\* empty.
FormFieldTimerFire ==
    /\ \E f \in FieldNames :
         /\ formFields[f].tag \in {"active", "empty"}
         /\ formFields' = [formFields EXCEPT ![f] =
                FieldReduce(@, [type |-> "evaluate", timestamp |-> now])]
    /\ UNCHANGED <<now, ioVars, domainVars, simpleVars, cacheVars, corpVars, isSubmitting, formError,
                   abortControllerRef, calls, posts>>

\* The render a call of validateAll or submit closes over: the hook objects
\* of the three simple fields and of the corporation number field, reduced
\* to what the continuations of the call read of them.  The values of the
\* simple fields are read only to compose the payload, which happens only
\* when the three isValid are true.
FormSnapshot ==
    LET simpleFieldsValid == /\ FieldIsValid(formFields["firstName"])
                             /\ FieldIsValid(formFields["lastName"])
                             /\ FieldIsValid(formFields["phone"])
    IN [simpleFieldsValid |-> simpleFieldsValid,
        values |-> IF simpleFieldsValid
                   THEN [f \in FieldNames |-> formFields[f].value] ELSE <<>>,
        corp |-> [tag |-> corpState.tag, currentValue |-> corpState.currentValue]]

\* postProfileDetails has not answered the call.
NoAnswer == [kind |-> "none", message |-> NullStr]

\* The closure of a call that returned.
NoSnapshot == [simpleFieldsValid |-> FALSE, values |-> <<>>, corp |-> <<>>]

\* validateAll up to its first await: setFormError(null), evaluate on the
\* three simple fields, setTimeout(resolve, 0).
ValidateAllStart(kind, maxCalls) ==
    /\ Len(calls) < maxCalls
    /\ formError' = NullStr
    /\ formFields' = [f \in FieldNames |->
           FieldReduce(formFields[f], [type |-> "evaluate", timestamp |-> now])]
    /\ calls' = Append(calls, [kind |-> kind, pc |-> "timer", snap |-> FormSnapshot,
                               promise |-> NoId, validated |-> "none",
                               answer |-> NoAnswer, returned |-> "none",
                               aborted |-> FALSE])
    /\ UNCHANGED <<now, ioVars, domainVars, simpleVars, cacheVars, corpVars, abortControllerRef, posts>>

\* validateAll()
FormValidateAll ==
    /\ ValidateAllStart("validateAll", MaxFormCalls)
    /\ UNCHANGED isSubmitting

\* submit() up to the first await of its validateAll()
SubmitCall(maxCalls) ==
    /\ ValidateAllStart("submit", maxCalls)
    /\ isSubmitting' = TRUE

FormSubmit == SubmitCall(MaxFormCalls)

\* The callback of validateAll's setTimeout(resolve, 0) and the continuation
\* it resolves: validateNow of the render the call closes over.
FormValidateNow ==
    /\ \E i \in 1..Len(calls) :
         /\ calls[i].pc = "timer"
         /\ CorpCommit(ValidateNowExecutor(
                Dispatch(CorpHook, [type |-> "evaluate", timestamp |-> now]),
                calls[i].snap.corp.tag))
         /\ calls' = [calls EXCEPT ![i].pc = "awaiting",
                                   ![i].promise = Len(promises) + 1]
    /\ UNCHANGED <<now, ioVars, domainVars, simpleVars, cacheInterval, fetcher, formFields,
                   isSubmitting, formError, abortControllerRef, posts>>

\* What validateAll returns when validateNow resolved corpValid.
ValidateAllResult(snap, corpValid) ==
    snap.simpleFieldsValid /\ corpValid

\* The payload submit composes.
FormPayload(snap) ==
    [firstName |-> Trim(snap.values["firstName"]),
     lastName |-> Trim(snap.values["lastName"]),
     phone |-> snap.values["phone"],
     corporationNumber |-> snap.corp.currentValue]

BoolStr(b) == IF b THEN "true" ELSE "false"

\* The continuation of the awaited validateNow: validateAll returns, and submit
\* runs on to its return or to the await of postProfileDetails.
FormContinue ==
    /\ \E i \in 1..Len(calls) :
         LET call == calls[i]
             isValid == ValidateAllResult(call.snap,
                                          promises[call.promise].status = "true")
         IN /\ call.pc = "awaiting"
            /\ promises[call.promise].status # "pending"
            /\ IF call.kind = "validateAll"
               THEN /\ calls' = [calls EXCEPT ![i].pc = "returned", ![i].snap = NoSnapshot,
                                              ![i].validated = BoolStr(isValid),
                                              ![i].returned = BoolStr(isValid)]
                    /\ UNCHANGED <<isSubmitting, formError, abortControllerRef, posts>>
               ELSE IF ~isValid
               THEN /\ calls' = [calls EXCEPT ![i].pc = "returned", ![i].snap = NoSnapshot,
                                              ![i].validated = "false",
                                              ![i].returned = "false"]
                    /\ isSubmitting' = FALSE
                    /\ abortControllerRef' = NoCall
                    /\ UNCHANGED <<formError, posts>>
               ELSE IF \/ ~CorpIsValid(call.snap.corp)
                       \/ call.snap.corp.currentValue \in {NullValue, EmptyString}
               THEN /\ calls' = [calls EXCEPT ![i].pc = "returned", ![i].snap = NoSnapshot,
                                              ![i].validated = "true",
                                              ![i].returned = "false"]
                    /\ formError' = "Corporation number validation is incomplete"
                    /\ isSubmitting' = FALSE
                    /\ abortControllerRef' = NoCall
                    /\ UNCHANGED posts
               ELSE /\ calls' = [calls EXCEPT ![i].pc = "posting",
                                              ![i].validated = "true"]
                    /\ posts' = Append(posts, [call |-> i,
                                                payload |-> FormPayload(call.snap)])
                    /\ abortControllerRef' = i
                    /\ UNCHANGED <<isSubmitting, formError>>
    /\ UNCHANGED <<now, ioVars, domainVars, simpleVars, cacheVars, corpVars, formFields>>

\* What postProfileDetails answers: ok, notOk with a message, or a rejection
\* (with an AbortError or with another error).
AdapterOutcomes ==
    {[kind |-> "ok", message |-> NullStr],
     [kind |-> "notOk", message |-> "Server error"],
     [kind |-> "abort", message |-> NullStr],
     [kind |-> "throw", message |-> NullStr]}

\* A submit that drops the exception of the adapter without a message
\* (mutant of FormErrorAfter).
FormErrorAfterSilent(outcome) ==
    IF outcome.kind = "notOk" THEN outcome.message ELSE formError

\* formError after the adapter's answer: setFormError(result.message), and
\* the catch block's message for an exception that is no AbortError.
FormErrorAfter(outcome) ==
    CASE outcome.kind = "notOk" -> outcome.message
      [] outcome.kind = "throw" ->
            "An unexpected error occurred. Please try again."
      [] OTHER -> formError

\* What submit sees of a call of postProfileDetails that ended as `result`.
SubmitOutcome(result) ==
    IF result.outcome = "returned"
    THEN IF result.value.ok THEN [kind |-> "ok", message |-> NullStr]
         ELSE [kind |-> "notOk", message |-> result.value.message]
    ELSE IF result.error.name = "AbortError"
    THEN [kind |-> "abort", message |-> NullStr]
    ELSE [kind |-> "throw", message |-> NullStr]

\* What postProfileDetails of this repository answers once reset() has
\* aborted the controller of the call.
AbortedOutcomes ==
    {SubmitOutcome(PostSettle(settlement, TRUE, TRUE)) :
        settlement \in FetchSettlementsAfterAbort}
    \cup {SubmitOutcome(PostOnJsonError(response)) :
             response \in {r \in Responses : ~ResponseOk(r)}}

\* The continuation of the awaited postProfileDetails, with the catch and
\* finally blocks of submit.
FormAdapterReturn ==
    /\ \E i \in 1..Len(calls) :
       \E outcome \in IF calls[i].aborted THEN AbortedOutcomes ELSE AdapterOutcomes :
         /\ calls[i].pc = "posting"
         /\ calls' = [calls EXCEPT ![i].pc = "returned", ![i].snap = NoSnapshot,
                                   ![i].answer = outcome,
                                   ![i].returned = BoolStr(outcome.kind = "ok")]
         /\ formError' = FormErrorAfter(outcome)
         /\ isSubmitting' = FALSE
         /\ abortControllerRef' = NoCall
    /\ UNCHANGED <<now, ioVars, domainVars, simpleVars, cacheVars, corpVars, formFields, posts>>

\* reset() of the form
FormReset ==
    /\ calls' = IF abortControllerRef # NoCall
                THEN [calls EXCEPT ![abortControllerRef].aborted = TRUE]
                ELSE calls
    /\ abortControllerRef' = NoCall
    /\ formFields' = [f \in FieldNames |->
           FieldReduce(formFields[f],
                       [type |-> "change", value |-> EmptyString, timestamp |-> now])]
    /\ CorpCommit(ResetTask(CorpHook))
    /\ isSubmitting' = FALSE
    /\ formError' = NullStr
    /\ UNCHANGED <<now, ioVars, domainVars, simpleVars, cacheInterval, fetcher, posts>>

\* ------------------------------------------------------------------------
\* Initial states and specifications
\* ------------------------------------------------------------------------

\* The local field machine, mounted and left alone.
SimpleStart ==
    /\ validator = [v \in SimpleValues |-> v = <<"a">>]
    /\ simpleState = SimpleCreateInitialState
    /\ simpleIdle = Null
    /\ simpleBlurEval = FALSE
    /\ simplePrevBlur = Null

\* The state after the constructor.
CacheStart ==
    /\ cache = EmptyMap
    /\ cacheInterval = TRUE
    /\ written = EmptyMap

\* The remote field machine, mounted and left alone.
CorpStart ==
    /\ corpState = CorpCreateInitialState
    /\ corpIdle = Null
    /\ corpBlurEval = FALSE
    /\ corpPrevBlur = Null
    /\ currentRequest = NoId
    /\ requests = <<>>
    /\ remoteCleanup = NoId
    /\ awaiter = NoId
    /\ promises = <<>>
    /\ verdictFor = NullValue

SimpleTick ==
    /\ Tick
    /\ UNCHANGED <<simpleVars, cacheVars, corpVars, formVars, ioVars, domainVars>>

SimpleInit ==
    /\ now = 0
    /\ validator \in SimpleValidators
    /\ simpleState = SimpleCreateInitialState
    /\ simpleIdle = Null
    /\ simpleBlurEval = FALSE
    /\ simplePrevBlur = Null
    /\ CacheStart
    /\ fetcher = "function"
    /\ CorpStart
    /\ FormStart
    /\ IoStart
    /\ DomainStart

SimpleNext ==
    \/ SimpleOnChange
    \/ SimpleOnBlur
    \/ SimpleOnFocus
    \/ SimpleEvaluateCall
    \/ SimpleIdleFire
    \/ SimpleBlurEvalFire
    \/ SimpleTick

SpecSimple == SimpleInit /\ [][SimpleNext]_vars

\* The local field machine with a clock that goes on and timers that fire
\* when they are due.
SpecSimpleFair ==
    /\ SimpleInit
    /\ [][SimpleNext]_vars
    /\ WF_vars(SimpleTick)
    /\ WF_vars(SimpleIdleFire)

CacheTick ==
    /\ Tick
    /\ UNCHANGED <<simpleVars, cacheVars, corpVars, formVars, ioVars, domainVars>>

CacheInit ==
    /\ now = 0
    /\ SimpleStart
    /\ CacheStart
    /\ fetcher = "function"
    /\ CorpStart
    /\ FormStart
    /\ IoStart
    /\ DomainStart

CacheNext ==
    \/ CacheGetCall
    \/ CacheSetCall
    \/ CacheDeleteCall
    \/ CacheClearCall
    \/ CacheSizeCall
    \/ CacheIntervalFire
    \/ CacheDestroyCall
    \/ CacheTick

SpecCache == CacheInit /\ [][CacheNext]_vars

CorpTick ==
    /\ now < CorpMaxTime
    /\ Tick
    /\ UNCHANGED <<simpleVars, cacheVars, corpVars, formVars, ioVars, domainVars>>

CorpInit ==
    /\ now = 0
    /\ SimpleStart
    /\ CacheStart
    /\ fetcher \in {"function", "undefined"}
    /\ CorpStart
    /\ FormStart
    /\ IoStart
    /\ DomainStart

CorpNext ==
    \/ CorpOnChange
    \/ CorpOnBlur
    \/ CorpOnFocus
    \/ CorpValidateNow
    \/ CorpReset
    \/ CorpIdleFire
    \/ CorpBlurEvalFire
    \/ CorpFetchResolve
    \/ CorpFetchReject
    \/ CorpValidateTimeoutFire
    \/ CacheIntervalFire
    \/ CorpTick

SpecCorp == CorpInit /\ [][CorpNext]_vars

\* The remote field machine with its callers of validateNow: edits, calls of
\* validateNow, the adapter's answers and the timeouts.  Time passes and a
\* timer whose delay has elapsed fires; an adapter need not answer.
AwaitTick ==
    /\ now < AwaitMaxTime
    /\ Tick
    /\ UNCHANGED <<simpleVars, cacheVars, corpVars, formVars, ioVars, domainVars>>

AwaitValidateNow == ValidateNowCall(MaxAwaitPromises)

AwaitInit ==
    /\ now = 0
    /\ SimpleStart
    /\ CacheStart
    /\ fetcher = "function"
    /\ CorpStart
    /\ FormStart
    /\ IoStart
    /\ DomainStart

AwaitNext ==
    \/ CorpOnChange
    \/ AwaitValidateNow
    \/ CorpFetchResolve
    \/ CorpValidateTimeoutFire
    \/ AwaitTick

SpecAwait ==
    /\ AwaitInit
    /\ [][AwaitNext]_vars
    /\ WF_vars(AwaitTick)
    /\ WF_vars(CorpValidateTimeoutFire)

\* The form orchestrator with its four fields: edits, blurs and the fields'
\* zero-delay timers, validateAll, submit and reset, the answers of the two
\* adapters.  A queued continuation runs before any other task.  The clock
\* stands still: no step of the orchestrator reads it.
FormCorpOnChange == CorpOnChangeTo(FormCorpValues)

FormInit ==
    /\ now = 0
    /\ validator = FormValidator
    /\ simpleState = SimpleCreateInitialState
    /\ simpleIdle = Null
    /\ simpleBlurEval = FALSE
    /\ simplePrevBlur = Null
    /\ CacheStart
    /\ fetcher = "function"
    /\ CorpStart
    /\ FormStart
    /\ IoStart
    /\ DomainStart

FormNext ==
    \/ FormContinue
    \/ ~FormMicrotaskReady /\ FormFieldOnChange
    \/ ~FormMicrotaskReady /\ FormFieldOnFocus
    \/ ~FormMicrotaskReady /\ FormFieldTimerFire
    \/ ~FormMicrotaskReady /\ FormValidateAll
    \/ ~FormMicrotaskReady /\ FormSubmit
    \/ ~FormMicrotaskReady /\ FormValidateNow
    \/ ~FormMicrotaskReady /\ FormAdapterReturn
    \/ ~FormMicrotaskReady /\ FormReset
    \/ ~FormMicrotaskReady /\ FormCorpOnChange
    \/ ~FormMicrotaskReady /\ CorpOnBlur
    \/ ~FormMicrotaskReady /\ CorpBlurEvalFire
    \/ ~FormMicrotaskReady /\ CorpFetchResolve

SpecForm == FormInit /\ [][FormNext]_vars

\* Repeated and overlapping submissions: edits, the simple fields' timers,
\* submit, and the answers of the two adapters.
RetrySubmit == SubmitCall(MaxRetryCalls)

RetryNext ==
    \/ FormContinue
    \/ ~FormMicrotaskReady /\ FormFieldOnChange
    \/ ~FormMicrotaskReady /\ FormFieldTimerFire
    \/ ~FormMicrotaskReady /\ RetrySubmit
    \/ ~FormMicrotaskReady /\ FormValidateNow
    \/ ~FormMicrotaskReady /\ FormAdapterReturn
    \/ ~FormMicrotaskReady /\ FormCorpOnChange
    \/ ~FormMicrotaskReady /\ CorpFetchResolve

SpecRetry == FormInit /\ [][RetryNext]_vars

\* The two adapters with their fetch, their timers and the caller's signal:
\* a call of either adapter, made with a signal that may be aborted already,
\* in an environment with or without AbortSignal.any.
IoInit ==
    /\ now = 0
    /\ SimpleStart
    /\ CacheStart
    /\ fetcher = "function"
    /\ CorpStart
    /\ FormStart
    /\ hasAny \in BOOLEAN
    /\ ioSignal \in BOOLEAN
    /\ ioCall = IoIdle
    /\ ioTimer = FALSE
    /\ ioController = FALSE
    /\ ioCombined = NoComposite
    /\ sigInputs = <<>>
    /\ sigComposite = NoComposite
    /\ sigComposed = FALSE
    /\ DomainStart

IoNext ==
    \/ IoCorpFetcherCall
    \/ IoPostCall
    \/ IoCallerAbort
    \/ IoTimeoutFire
    \/ IoFetchResolve
    \/ IoFetchReject
    \/ IoJsonSettle

SpecIo == IoInit /\ [][IoNext]_vars

\* composeAbortSignal over up to MaxSignals signals, each fired or not when
\* they are composed, each free to fire before and after.
SignalInit ==
    /\ now = 0
    /\ SimpleStart
    /\ CacheStart
    /\ fetcher = "function"
    /\ CorpStart
    /\ FormStart
    /\ hasAny \in BOOLEAN
    /\ ioSignal = FALSE
    /\ ioCall = IoIdle
    /\ ioTimer = FALSE
    /\ ioController = FALSE
    /\ ioCombined = NoComposite
    /\ sigInputs \in UNION {[1..n -> BOOLEAN] : n \in 0..MaxSignals}
    /\ sigComposite = NoComposite
    /\ sigComposed = FALSE
    /\ DomainStart

SignalNext ==
    \/ SignalCompose
    \/ SignalAbort

SpecSignal == SignalInit /\ [][SignalNext]_vars

\* The three functions of the corporation number domain, applied to every
\* string of up to MaxCandidateLen characters.
CorpNoInit ==
    /\ now = 0
    /\ SimpleStart
    /\ CacheStart
    /\ fetcher = "function"
    /\ CorpStart
    /\ FormStart
    /\ IoStart
    /\ candidate \in Candidates
    /\ answers = NotAsked

CorpNoNext ==
    \/ WhyNotPlausibleCall
    \/ IsPlausibleCall
    \/ ToPlausibleCall

SpecCorpNo == CorpNoInit /\ [][CorpNoNext]_vars

\* The remote field machine with an adapter that settles every call: edits,
\* blurs and focuses, the idle timer and the blur effect's timer, and the
\* answers of the adapter, which resolves or rejects every call in the end.
SettleInit ==
    /\ now = 0
    /\ SimpleStart
    /\ CacheStart
    /\ fetcher = "function"
    /\ CorpStart
    /\ FormStart
    /\ IoStart
    /\ DomainStart

\* A call of the adapter has not settled yet.
RequestPending ==
    \E id \in 1..Len(requests) : requests[id].status = "pending"

\* The adapter settles a call: CorpFetchResolve or CorpFetchReject.
RequestSettles ==
    \E id \in 1..Len(requests) :
        requests[id].status = "pending" /\ requests'[id].status = "settled"

\* Weak fairness of the adapter's answers: a call that stays pending is
\* settled in the end.
AdapterAnswers ==
    []<>(~RequestPending) \/ []<><<RequestSettles>>_vars

SettleNext ==
    \/ CorpOnChange
    \/ CorpOnBlur
    \/ CorpOnFocus
    \/ CorpIdleFire
    \/ CorpBlurEvalFire
    \/ CorpFetchResolve
    \/ CorpFetchReject
    \/ CorpTick

SpecSettle ==
    /\ SettleInit
    /\ [][SettleNext]_vars
    /\ AdapterAnswers

\* ------------------------------------------------------------------------
\* A local field and the remote field mounted side by side, as in the form
\* ------------------------------------------------------------------------

FieldsMaxTime == 1

FieldsTick ==
    /\ now < FieldsMaxTime
    /\ Tick
    /\ UNCHANGED <<simpleVars, cacheVars, corpVars, formVars, ioVars, domainVars>>

FieldsNext ==
    \/ SimpleOnChange
    \/ SimpleOnBlur
    \/ SimpleOnFocus
    \/ SimpleEvaluateCall
    \/ SimpleIdleFire
    \/ SimpleBlurEvalFire
    \/ CorpOnChange
    \/ CorpOnBlur
    \/ CorpOnFocus
    \/ CorpIdleFire
    \/ CorpBlurEvalFire
    \/ CorpFetchResolve
    \/ CorpFetchReject
    \/ FieldsTick

SpecFields == SettleInit /\ [][FieldsNext]_vars

\* ------------------------------------------------------------------------
\* Properties of the local field machine (SpecSimple)
\* ------------------------------------------------------------------------

\* C2: no error while typing.  A change event always leaves the machine in
\* empty or active with issue null, and the tag becomes invalid only in a
\* step that dispatches evaluate: the idle timer's callback, the blur
\* timeout's callback or the explicit evaluate call.
C2_NoErrorWhileTyping ==
    [][ /\ SimpleOnChange =>
             /\ simpleState'.tag \in {"empty", "active"}
             /\ simpleState'.issue = NullStr
        /\ (simpleState.tag # "invalid" /\ simpleState'.tag = "invalid") =>
             (SimpleIdleFire \/ SimpleBlurEvalFire \/ SimpleEvaluateCall)
      ]_vars

\* C2 witness: a value the validator rejects is being typed, the idle timer
\* is armed and no error is shown.
C2_Witness ==
    /\ simpleState.tag = "active"
    /\ ~validator[simpleState.value]
    /\ simpleState.issue = NullStr
    /\ simpleIdle # Null
    /\ simpleState.lastUpdatedAt > 0

\* C4 as stated: tag = empty if and only if value = "".
C4_Original ==
    (simpleState.tag = "empty") <=> (simpleState.value = EmptyString)

\* C4 amended: tag = empty implies value = "", and value = "" implies that
\* the tag is not active (it is empty, or valid/invalid once evaluate ran on
\* the empty value).
C4_EmptyTagImpliesEmptyValue ==
    /\ (simpleState.tag = "empty") => (simpleState.value = EmptyString)
    /\ (simpleState.value = EmptyString) => (simpleState.tag # "active")

\* C4 witness: the tag returned to empty, by a focus on an evaluated empty
\* field or by clearing the value, after a blur.
C4_Witness ==
    /\ simpleState.tag = "empty"
    /\ simpleState.value = EmptyString
    /\ simpleState.lastBlurAt # Null
    /\ simpleState.lastUpdatedAt > 0

\* C5: issue is non-null if and only if tag = invalid.
C5_IssueIffInvalid ==
    (simpleState.issue # NullStr) <=> (simpleState.tag = "invalid")

\* C5 witness: an evaluated field that shows its issue.
C5_Witness ==
    /\ simpleState.tag = "invalid"
    /\ simpleState.issue = "invalid"
    /\ simpleState.value # EmptyString


\* ------------------------------------------------------------------------
\* Properties of the remote field machine (SpecCorp)
\* ------------------------------------------------------------------------

RemoteTerminalTags == {"valid", "invalid", "error"}

\* C1: a stale result is never applied.  Whenever the field shows valid,
\* invalid or error, the verdict the reducer applied last was obtained for
\* the value the field holds; and while a check is in flight, the tracked
\* request asks about the value the field holds.  A request for a value the
\* user edited away from changes nothing, whenever its fetch settles.
C1_StaleResultNeverApplied ==
    /\ corpState.tag \in RemoteTerminalTags => verdictFor = corpState.value
    /\ (corpState.tag = "checking" /\ currentRequest # NoId) =>
           /\ requests[currentRequest].currentValue = corpState.value
           /\ ~requests[currentRequest].aborted

\* C1 witness: the fetch for a value the user edited away from has settled
\* after its abort, and the field shows the verdict of the value it holds.
C1_Witness ==
    /\ corpState.tag \in RemoteTerminalTags
    /\ verdictFor = corpState.value
    /\ \E id \in 1..Len(requests) :
          /\ requests[id].currentValue # corpState.value
          /\ requests[id].aborted
          /\ requests[id].status = "settled"

\* C3: in every reachable state, whatever its tag, a change event yields
\* tag empty for the value "" and tag active for any other value, with
\* localIssue, remoteMessage and currentValue null.
C3_ChangeClearsEverything ==
    \A v \in CorpValues :
        LET s == corpNoFieldReducer(corpState,
                     [type |-> "change", value |-> v, timestamp |-> now])
        IN /\ s.tag = IF v = EmptyString THEN "empty" ELSE "active"
           /\ s.value = v
           /\ s.localIssue = NullStr
           /\ s.remoteMessage = NullStr
           /\ s.currentValue = NullValue

\* C3 witness: a value was checked and found wanting, and the edit that
\* followed left no message and no currentValue behind.
C3_Witness ==
    /\ corpState.tag = "active"
    /\ corpState.lastCheckedAt # Null
    /\ verdictFor # NullValue
    /\ verdictFor # corpState.value
    /\ corpState.localIssue = NullStr
    /\ corpState.remoteMessage = NullStr
    /\ corpState.currentValue = NullValue

\* C6 as stated: currentValue is non-null if and only if the tag is one of
\* checking, valid, invalid, error.
C6_CurrentValueIffRemoteTag ==
    (corpState.currentValue # NullValue)
        <=> (corpState.tag \in {"checking", "valid", "invalid", "error"})

\* C7: at most one request of the instance is neither settled nor aborted,
\* and that request is the one currentRequestRef tracks.
C7_AtMostOneInFlight ==
    LET inFlight == {id \in 1..Len(requests) :
                        requests[id].status = "pending" /\ ~requests[id].aborted}
    IN /\ Cardinality(inFlight) <= 1
       /\ \A id \in inFlight : currentRequest = id

\* C7 witness: a second request was issued while the fetch of the first,
\* aborted, had not settled yet.
C7_Witness ==
    /\ Len(requests) = 2
    /\ requests[1].status = "pending"
    /\ requests[1].aborted
    /\ requests[2].status = "pending"
    /\ ~requests[2].aborted
    /\ currentRequest = 2

\* C8: no entry of the cache holds an error result, and while the field
\* shows error the cache has nothing to answer for its value, so that the
\* next check of that value goes to the adapter.
C8_ErrorsNeverCached ==
    /\ \A k \in DOMAIN cache : cache[k].result.kind \in {"valid", "invalid"}
    /\ corpState.tag = "error" =>
           CacheGet(cache, corpState.value, now).result = Undefined

\* C8 witness: the adapter failed for one number while the verdict of
\* another sits in the cache.
C8_Witness ==
    /\ corpState.tag = "error"
    /\ verdictFor = corpState.value
    /\ \E k \in DOMAIN cache : ~CacheExpired(cache[k], now)

\* A step in which the field enters checking: evaluate ran on a plausible
\* value.  The verdict of a cache hit is rendered in the same step.
EntersChecking ==
    /\ corpState.tag \in {"active", "implausible"}
    /\ corpState'.tag \in {"checking", "valid", "invalid", "error"}

\* C9: when the field enters checking with a value whose valid or invalid
\* verdict was cached and the TTL has not run out, it reaches the tag of
\* that verdict with no request issued; once the TTL has run out, entering
\* checking with that value issues a request for it to the adapter.
C9_CacheHitSkipsAdapter ==
    [][ (EntersChecking /\ corpState.value \in DOMAIN written) =>
            LET entry == written[corpState.value]
            IN IF now <= entry.expiresAt
               THEN /\ corpState'.tag = entry.result.kind
                    /\ requests' = requests
               ELSE /\ corpState'.tag = "checking"
                    /\ Len(requests') = Len(requests) + 1
                    /\ Last(requests').currentValue = corpState.value
                    /\ Last(requests').status = "pending"
      ]_vars

\* C9 witness: a verdict taken from the cache at the last moment of its TTL,
\* one request having been issued in all.
C9_Witness ==
    /\ corpState.tag \in {"valid", "invalid"}
    /\ corpState.value \in DOMAIN written
    /\ corpState.lastCheckedAt = written[corpState.value].expiresAt
    /\ written[corpState.value].result.kind = corpState.tag
    /\ Len(requests) = 1

\* Every result an adapter may return.
AllResults == UNION {ResultsFor(cn) : cn \in CorpKeys}

\* C11: in every reachable state whose tag is not checking, remote:start,
\* remote:ok, remote:invalid and remote:error, whatever they carry, leave
\* the state as it is; in checking, remote:ok / remote:invalid / remote:error
\* with a result of the matching kind give tag valid / invalid / error with
\* lastCheckedAt the event's timestamp and remoteMessage null for valid and
\* a message for invalid and error, and change nothing with a result of
\* another kind.
C11_RemoteEventsOnlyInChecking ==
    /\ \A cn \in CorpKeys :
         LET s == corpNoFieldReducer(corpState,
                      [type |-> "remote:start", currentValue |-> cn, timestamp |-> now])
         IN corpState.tag # "checking" => s = corpState
    /\ \A t \in {"remote:ok", "remote:invalid", "remote:error"}, r \in AllResults :
         LET s == corpNoFieldReducer(corpState,
                      [type |-> t, result |-> r, timestamp |-> now])
             matches == \/ t = "remote:ok" /\ r.kind = "valid"
                        \/ t = "remote:invalid" /\ r.kind = "invalid"
                        \/ t = "remote:error" /\ r.kind = "error"
         IN IF corpState.tag = "checking" /\ matches
            THEN /\ s.tag = r.kind
                 /\ s.lastCheckedAt = now
                 /\ (r.kind = "valid") => s.remoteMessage = NullStr
                 /\ (r.kind # "valid") => s.remoteMessage # NullStr
                 /\ (r.kind # "valid" /\ r.message # NullStr) =>
                        s.remoteMessage = r.message
                 /\ s.value = corpState.value
                 /\ s.currentValue = corpState.currentValue
            ELSE s = corpState

\* C11 witness: an error without a message of its own was applied in
\* checking and the field shows the message made up from the error's kind.
C11_Witness ==
    /\ corpState.tag = "error"
    /\ corpState.remoteMessage = "timeout error occurred"
    /\ corpState.lastCheckedAt = corpState.lastUpdatedAt
    /\ corpState.lastCheckedAt > 0


\* Values a field may hold when evaluate arrives: those typed in the model
\* and one with a letter, one of eight digits and one of ten.
EvaluateValues ==
    CorpValues \cup {<<"1", "2", "a">>,
                     <<"1", "2", "3", "4", "5", "6", "7", "8">>,
                     <<"1", "2", "3", "4", "5", "6", "7", "8", "9", "0">>,
                     <<"1", "2", "3", "4", "5", "6", "7", "8", "x">>}

\* s is exactly nine digits.
ExactlyNineDigits(s) ==
    /\ Len(s) = 9
    /\ \A i \in 1..9 : s[i] \in Digits

\* The issue the specification names for a value that is not nine digits.
IssueOf(s) ==
    IF s = EmptyString THEN "empty"
    ELSE IF \E i \in 1..Len(s) : s[i] \notin Digits THEN "contains_non_digit"
    ELSE IF Len(s) < 9 THEN "too_short"
    ELSE "too_long"

\* C12: in every reachable state, with any value in the field, evaluate in
\* tag active or implausible gives tag implausible with localIssue the
\* classifier's issue when the value is not exactly nine digits, and tag
\* checking with localIssue null and currentValue the value when it is; in
\* every other tag evaluate leaves the state as it is.
C12_EvaluateClassifies ==
    \A v \in EvaluateValues :
        LET before == [corpState EXCEPT !.value = v]
            s == corpNoFieldReducer(before, [type |-> "evaluate", timestamp |-> now])
        IN IF before.tag \in {"active", "implausible"}
           THEN IF ExactlyNineDigits(v)
                THEN /\ s.tag = "checking"
                     /\ s.localIssue = NullStr
                     /\ s.currentValue = v
                     /\ s.value = v
                ELSE /\ s.tag = "implausible"
                     /\ s.localIssue = IssueOf(v)
                     /\ s.value = v
                     /\ s.currentValue = before.currentValue
           ELSE s = before

\* C12 witness: a value of three digits was evaluated and found too short.
C12_Witness ==
    /\ corpState.tag = "implausible"
    /\ corpState.localIssue = "too_short"
    /\ corpState.value = <<"1", "2", "3">>
    /\ corpState.lastUpdatedAt > 0


\* The promises that resolve to `outcome` in the step.
ResolvesIn(outcome) ==
    {id \in 1..Len(promises') :
        /\ promises'[id].status = outcome
        /\ (id > Len(promises) \/ promises[id].status # outcome)}

\* C13: in every step in which a promise of validateNow resolves true, the
\* task ends with the field in tag valid, the verdict being the one obtained
\* for the value the field holds; no promise resolves true in a step that
\* ends in empty, active, implausible, checking, invalid or error.
C13_TrueOnlyWhenValid ==
    [][ ResolvesIn("true") # {} =>
            /\ corpState'.tag = "valid"
            /\ verdictFor' = corpState'.value
      ]_vars

\* C13 witness: a promise that had to wait (its timeout was armed) resolved
\* true and the field is valid.
C13_Witness ==
    /\ corpState.tag = "valid"
    /\ \E id \in 1..Len(promises) :
          /\ promises[id].status = "true"
          /\ promises[id].timer # Null


\* The promise id waits, and its timeout falls within the clock's range.
WaitsWithTimeout(id) ==
    IF id <= Len(promises)
    THEN /\ promises[id].status = "pending"
         /\ promises[id].timer # Null
         /\ promises[id].timer <= AwaitMaxTime
    ELSE FALSE

\* The promise id is resolved, true or false.
IsResolved(id) ==
    IF id <= Len(promises) THEN promises[id].status # "pending" ELSE FALSE

\* C14 as stated: every promise validateNow returned is eventually resolved,
\* true or false, whatever follows the call.
C14_EveryPromiseResolves ==
    \A id \in 1..MaxAwaitPromises : WaitsWithTimeout(id) ~> IsResolved(id)


\* What a change must have done by the end of its task: the request that
\* was tracked is aborted and forgotten, the promise that waited is false.
ChangeCancelled ==
    /\ currentRequest # NoId =>
          /\ requests'[currentRequest].aborted
          /\ currentRequest' = NoId
    /\ awaiter # NoId =>
          /\ promises'[awaiter].status = "false"
          /\ awaiter' = NoId

C16_ResetCancelsEverything ==
    [][ /\ CorpReset =>
            /\ corpState'.tag = "empty"
            /\ corpState'.value = EmptyString
            /\ corpState'.localIssue = NullStr
            /\ corpState'.remoteMessage = NullStr
            /\ corpState'.currentValue = NullValue
            /\ currentRequest' = NoId
            /\ \A id \in 1..Len(requests') :
                  requests'[id].aborted \/ requests'[id].status # "pending"
            /\ awaiter' = NoId
            /\ awaiter # NoId => promises'[awaiter].status = "false"
        /\ \A id \in 1..Len(requests) :
              ( /\ requests[id].aborted
                /\ requests[id].status = "pending"
                /\ requests'[id].status = "settled" )
              => (corpState' = corpState /\ cache' = cache)
      ]_vars

\* C16 witness: the field was reset during a check a caller waited for: it
\* is empty, the request is aborted with its fetch unsettled, the caller was
\* told false.
C16_Witness ==
    /\ corpState.tag = "empty"
    /\ corpState.value = EmptyString
    /\ corpState.lastUpdatedAt > 0
    /\ currentRequest = NoId
    /\ awaiter = NoId
    /\ \E id \in 1..Len(requests) :
          requests[id].aborted /\ requests[id].status = "pending"
    /\ \E id \in 1..Len(promises) :
          promises[id].status = "false" /\ promises[id].timer # Null

\* ------------------------------------------------------------------------
\* Properties of the result cache (SpecCache)
\* ------------------------------------------------------------------------

\* C10: at every moment and for every key k, get(k) returns the result of
\* the latest set(k, r, ttl) not undone by delete/clear while the clock is
\* not past that entry's expiresAt (the time of the set plus its ttl); in
\* every other case it returns undefined and leaves no entry for k in the
\* Map, so an expired entry is never returned again.
C10_GetHonoursExpiry ==
    \A k \in CorpKeys :
        LET got == CacheGet(cache, k, now)
        IN IF k \in DOMAIN written /\ now <= written[k].expiresAt
           THEN got.result = written[k].result
           ELSE /\ got.result = Undefined
                /\ k \notin DOMAIN got.cache

\* C10 witness: one entry is read exactly at its expiresAt while another,
\* past its expiresAt, is still in the Map waiting for a get or a sweep.
C10_Witness ==
    \E k, j \in DOMAIN cache :
        /\ now = cache[k].expiresAt
        /\ now > cache[j].expiresAt
        /\ CacheGet(cache, k, now).result = cache[k].result
        /\ j \notin DOMAIN CacheGet(cache, j, now).cache

\* ------------------------------------------------------------------------
\* Properties of the form orchestrator (SpecForm)
\* ------------------------------------------------------------------------

AllFourValid ==
    /\ \A f \in FieldNames : formFields[f].tag = "valid"
    /\ corpState.tag = "valid"

(* C17: in every state of the form orchestrator canSubmit is true if and   *)
(* only if the first name, last name, phone and corporation number fields  *)
(* are all valid and isSubmitting is false.                                *)
C17_CanSubmitIffValidAndIdle ==
    canSubmit <=> (AllFourValid /\ isSubmitting = FALSE)

\* The four fields are valid while a submission is in flight.
C17_Witness ==
    /\ AllFourValid
    /\ isSubmitting
    /\ \E i \in 1..Len(calls) : calls[i].kind = "submit" /\ calls[i].pc = "posting"

\* Call i's validateAll returns in this step.
ValidateAllReturns(i) ==
    IF i <= Len(calls) /\ i <= Len(calls')
    THEN calls[i].validated = "none" /\ calls'[i].validated # "none"
    ELSE FALSE

(* C18: validateAll returns true exactly when, once it has triggered the   *)
(* evaluation of every field and the corporation number field has reached  *)
(* its terminal state, the four fields are valid: in the step in which a   *)
(* validateAll returns, its result is true if and only if the first name,  *)
(* last name, phone and corporation number fields are all in tag valid.    *)
C18_ValidateAllTellsValidity ==
    [][\A i \in 1..MaxFormCalls :
          ValidateAllReturns(i) =>
              (calls'[i].validated = "true" <=> AllFourValid')]_vars

\* The number of times call i invoked postProfileDetails.
Invocations(i) == Cardinality({k \in 1..Len(posts) : posts[k].call = i})

\* Call i invokes postProfileDetails in this step.
Invokes(i) ==
    /\ Len(posts') = Len(posts) + 1
    /\ Last(posts').call = i

(* C19: a call of submit invokes postProfileDetails only if its            *)
(* validateAll returned true, and then exactly once; it does not invoke it *)
(* when validateAll returned false; and at the invocation the payload      *)
(* holds the trimmed values of the first name and last name fields and the *)
(* currentValue of the corporation number field.                           *)
C19_SubmitInvokesAdapterOnce ==
    /\ [](\A i \in 1..Len(calls) :
            /\ Invocations(i) > 0 =>
                   calls[i].kind = "submit" /\ calls[i].validated = "true"
            /\ calls[i].kind = "submit" /\ calls[i].validated = "true" =>
                   Invocations(i) = 1
            /\ calls[i].validated = "false" => Invocations(i) = 0)
    /\ [][\A i \in 1..MaxFormCalls :
            Invokes(i) =>
                LET payload == Last(posts').payload
                IN /\ payload.firstName = Trim(formFields'["firstName"].value)
                   /\ payload.lastName = Trim(formFields'["lastName"].value)
                   /\ payload.corporationNumber = corpState'.currentValue]_vars

\* postProfileDetails answers call i notOk in this step.
AnswersNotOk(i) ==
    IF i <= Len(calls) /\ i <= Len(calls')
    THEN calls[i].pc = "posting" /\ calls'[i].answer.kind = "notOk"
    ELSE FALSE

(* C20: when postProfileDetails answers a submit notOk with a message,     *)
(* formError becomes that message and canSubmit is false; as canSubmit is  *)
(* derived from the fields and isSubmitting, it then stays false for as    *)
(* long as no field changes and no new submit starts.                      *)
C20_FailedSubmitBlocksResubmit ==
    [][\A i \in 1..MaxFormCalls :
          AnswersNotOk(i) =>
              /\ formError' = calls'[i].answer.message
              /\ ~canSubmit']_vars

\* Call i, a submit, starts in this step.
SubmitStarts(i) ==
    IF i = Len(calls) + 1 /\ i = Len(calls')
    THEN calls'[i].kind = "submit" ELSE FALSE

\* Call i, a submit, returns in this step.
SubmitReturns(i) ==
    IF i <= Len(calls) /\ i <= Len(calls')
    THEN /\ calls[i].kind = "submit"
         /\ calls[i].pc # "returned"
         /\ calls'[i].pc = "returned"
    ELSE FALSE

(* C21: a submit sets formError to null when it starts; on every path on   *)
(* which it returns (validation failed, adapter ok, adapter notOk,         *)
(* exception, cancellation) it leaves isSubmitting false; and when the     *)
(* adapter answered notOk or threw an error that is no cancellation, it    *)
(* leaves formError non-null.                                              *)
C21_SubmitClearsAndSurfaces ==
    [][\A i \in 1..MaxRetryCalls :
          /\ SubmitStarts(i) => formError' = NullStr
          /\ SubmitReturns(i) =>
                /\ isSubmitting' = FALSE
                /\ calls'[i].answer.kind \in {"notOk", "throw"} =>
                       formError' # NullStr]_vars

\* A second submit started after the first one had failed with a message,
\* and has itself come back from an adapter that threw.
C21_Witness ==
    /\ Len(calls) = 2
    /\ calls[1].validated = "true"
    /\ calls[1].returned = "false"
    /\ calls[2].answer.kind = "throw"
    /\ formError = "An unexpected error occurred. Please try again."
    /\ ~isSubmitting


\* reset() finds call i outstanding and aborts its controller.
ResetCancels(i) ==
    /\ i <= Len(calls)
    /\ ~calls[i].aborted
    /\ calls'[i].aborted

\* The promise of the cancelled call i settles.
CancelledSettles(i) ==
    /\ i <= Len(calls)
    /\ calls[i].aborted
    /\ calls[i].pc = "posting"
    /\ calls'[i].pc = "returned"

AllFourEmpty ==
    /\ \A f \in FieldNames :
         formFields[f].tag = "empty" /\ formFields[f].value = EmptyString
    /\ corpState.tag = "empty"
    /\ corpState.value = EmptyString

\* C22: when reset() is called while a submission is outstanding, its
\* cancellation handle is aborted, all four fields have value "" and tag
\* empty and formError is null; formError is still null when the promise of
\* the cancelled submission settles.
C22_ResetCancelsSilently ==
    [][\A i \in 1..MaxFormCalls :
         /\ ResetCancels(i) => AllFourEmpty' /\ formError' = NullStr
         /\ CancelledSettles(i) => formError' = NullStr]_vars

\* A cancelled submission has settled with the AbortError of its fetch.
C22_Witness ==
    /\ Len(calls) = 1
    /\ calls[1].aborted
    /\ calls[1].pc = "returned"
    /\ calls[1].answer.kind = "abort"
    /\ formError = NullStr


\* ------------------------------------------------------------------------
\* Properties of the I/O adapters (SpecIo)
\* ------------------------------------------------------------------------

IoDone == ioCall.pc = "done"

IoThrew == IoDone /\ ioCall.result.outcome = "thrown"

\* C23: corpFetcher and postProfileDetails throw only when the caller's
\* signal has been aborted; on every other outcome of the fetch, the
\* adapter's own timeout included, they return a typed result.
C23_ThrowsOnlyWhenCallerCancelled ==
    IoThrew => ioSignal

\* An adapter has rethrown the AbortError of a fetch its caller cancelled.
C23_Witness ==
    /\ IoThrew
    /\ ioSignal
    /\ ioCall.result.error = AbortError
    /\ ~ioCall.timedOut

\* The timer of corpFetcher fired during the call, the fetch was aborted by
\* it, and the caller's signal is not aborted.
CorpTimedOut ==
    /\ ioCall.adapter = "corpFetcher"
    /\ IoDone
    /\ ioCall.timedOut
    /\ ioCall.settlement = Rejects(AbortError)
    /\ ~ioSignal

\* C24: when the timeout of corpFetcher fires while the caller's signal is
\* not aborted, the call returns error with kind timeout; it does not reject.
C24_OwnTimeoutReturnsTimeout ==
    CorpTimedOut =>
        /\ ioCall.result.outcome = "returned"
        /\ ioCall.result.value.kind = "error"
        /\ ioCall.result.value.error = "timeout"

\* C25: when a call of corpFetcher has returned or rejected, the timer of
\* withTimeoutSignal is not armed any more.
C25_TimerClearedOnEveryExit ==
    (ioCall.adapter = "corpFetcher" /\ IoDone) => ~ioTimer

\* corpFetcher has returned on a response, the timer cleared before it fired.
C25_Witness ==
    /\ ioCall.adapter = "corpFetcher"
    /\ IoDone
    /\ ioCall.settlement.kind = "response"
    /\ ~ioTimer
    /\ ~ioController

\* The call of corpFetcher ended with the fetch and its body undisturbed:
\* neither the caller nor the timer aborted the signal of the fetch.
CorpUndisturbed ==
    /\ ioCall.adapter = "corpFetcher"
    /\ IoDone
    /\ ~ioCombined.aborted

\* The result kind (and error kind) corpFetcher is to give for a settlement.
ExpectedCorpKind(settlement) ==
    LET body == settlement.body
    IN IF settlement.kind = "rejection" THEN <<"error", "network">>
       ELSE IF settlement.status >= 500 THEN <<"error", "server">>
       ELSE IF settlement.status \in {400, 404} THEN <<"invalid">>
       ELSE IF ~ResponseOk(settlement) THEN <<"error">>
       ELSE IF ~body.parseable THEN <<"error">>
       ELSE IF body.valid = "true" THEN <<"valid">>
       ELSE IF body.valid = "false" THEN <<"invalid">>
       ELSE IF body.corporationNumber THEN <<"valid">>
       ELSE <<"error">>

\* C28: corpFetcher maps 2xx with valid:true or the legacy corporationNumber
\* field to valid, 2xx with valid:false to invalid, 400 and 404 to invalid,
\* 5xx to error(server), a 2xx body that is unparseable or has no validity
\* field to error, and a rejected fetch to error(network).
C28_ResponseMapping ==
    (CorpUndisturbed /\ ioCall.settlement # Rejects(TimeoutMessage)) =>
        LET expected == ExpectedCorpKind(ioCall.settlement)
            value == ioCall.result.value
        IN /\ ioCall.result.outcome = "returned"
           /\ value.kind = expected[1]
           /\ Len(expected) = 2 => value.error = expected[2]

\* corpFetcher has answered valid on the legacy body.
C28_Witness ==
    /\ CorpUndisturbed
    /\ ioCall.settlement.kind = "response"
    /\ ioCall.settlement.body = Body(TRUE, "absent", TRUE, NullStr)
    /\ ioCall.settlement.status = 200
    /\ ioCall.result.value.kind = "valid"

\* postProfileDetails has returned on an error response, with the signal of
\* its fetch not aborted.
PostErrorResponse ==
    /\ ioCall.adapter = "postProfileDetails"
    /\ IoDone
    /\ ~ioCombined.aborted
    /\ ioCall.settlement.kind = "response"
    /\ ~ResponseOk(ioCall.settlement)

\* C29: on a non-2xx response postProfileDetails returns notOk with the
\* message of the body when the body has one, and with the fallback of the
\* status when it has none, be the body unparseable or JSON without message.
C29_StatusFallbackWithoutMessage ==
    PostErrorResponse =>
        LET body == ioCall.settlement.body
        IN /\ ioCall.result.outcome = "returned"
           /\ ~ioCall.result.value.ok
           /\ ioCall.result.value.message =
                 IF body.parseable /\ body.message # NullStr THEN body.message
                 ELSE PostStatusMessage(ioCall.settlement.status)

\* postProfileDetails has answered the fallback of status 422 on a body that
\* is not JSON.
C29_Witness ==
    /\ PostErrorResponse
    /\ ioCall.settlement.status = 422
    /\ ~ioCall.settlement.body.parseable
    /\ ioCall.result.value.message = "Request failed with status 422"

\* ------------------------------------------------------------------------
\* Properties of composeAbortSignal (SpecSignal)
\* ------------------------------------------------------------------------

\* C26: the signal composeAbortSignal returned is aborted exactly when one
\* of its input signals is: from the start when an input was aborted at
\* composition, as soon as an input aborts afterwards, and never before.
C26_CompositeFiredIffInputFired ==
    sigComposed =>
        (sigComposite.aborted <=> \E i \in DOMAIN sigInputs : sigInputs[i])

\* Without AbortSignal.any, a composite returned unaborted has been aborted
\* by its second input, and one returned aborted is there as well.
C26_Witness ==
    /\ sigComposed
    /\ ~hasAny
    /\ Len(sigInputs) >= 2
    /\ sigComposite.aborted
    /\ ~sigComposite.composedAborted
    /\ ~sigInputs[1]
    /\ sigInputs[2]

\* ------------------------------------------------------------------------
\* Properties of the corporation number domain (SpecCorpNo)
\* ------------------------------------------------------------------------

\* The one issue of a string that is not nine digits.
IssueByPrecedence(s) ==
    IF s = EmptyString THEN "empty"
    ELSE IF \E i \in 1..Len(s) : s[i] \notin Digits THEN "contains_non_digit"
    ELSE IF Len(s) < 9 THEN "too_short"
    ELSE "too_long"

AllAsked == answers.asked = {"why", "plausible", "converted"}

\* C27: whyNotPlausibleCorpNo(s) is null iff isPlausibleCorpNo(s) iff
\* toPlausibleCorpNo(s) does not throw iff s is exactly nine digits;
\* otherwise the issue is empty, else contains_non_digit, else too_short or
\* too_long, and toPlausibleCorpNo throws with the message of that issue.
C27_PlausibilityAgrees ==
    AllAsked =>
        /\ (answers.why = NullStr) <=> answers.plausible
        /\ answers.plausible <=> ~answers.converted.threw
        /\ ~answers.converted.threw <=> ExactlyNineDigits(candidate)
        /\ ExactlyNineDigits(candidate) => answers.converted.value = candidate
        /\ ~ExactlyNineDigits(candidate) =>
              /\ answers.why = IssueByPrecedence(candidate)
              /\ answers.converted.message =
                    "Cannot convert to PlausibleCorpNo: "
                    \o formatCorpNoLocalIssue(answers.why)

\* Ten characters with a letter among them: contains_non_digit, not too_long.
C27_Witness ==
    /\ AllAsked
    /\ Len(candidate) = 10
    /\ \E i \in 1..Len(candidate) : candidate[i] \notin Digits
    /\ answers.why = "contains_non_digit"
    /\ answers.converted.message = "Cannot convert to PlausibleCorpNo: Only digits"


\* ------------------------------------------------------------------------
\* Terminal states of the field machines (SpecCorp)
\* ------------------------------------------------------------------------

CorpTerminal == corpState.tag \in {"implausible", "valid", "invalid", "error"}

\* A step no user event takes: a timer callback, an answer of the adapter,
\* the passing of time.
CorpAutomatic ==
    \/ CorpIdleFire
    \/ CorpBlurEvalFire
    \/ CorpFetchResolve
    \/ CorpFetchReject
    \/ CorpValidateTimeoutFire
    \/ CacheIntervalFire
    \/ CorpTick

\* C30: once the remote machine is in implausible, valid, invalid or error,
\* its idle timer is not armed, and as long as no user event arrives no step
\* changes its state, lastUpdatedAt included.
C30_TerminalStatesAreQuiet ==
    /\ [](CorpTerminal => corpIdle = Null)
    /\ [][(CorpTerminal /\ CorpAutomatic) => corpState' = corpState]_vars

\* The remote machine rests in valid with no timer armed.
C30_Witness ==
    /\ corpState.tag = "valid"
    /\ corpIdle = Null
    /\ ~corpBlurEval
    /\ now > corpState.lastUpdatedAt


\* ------------------------------------------------------------------------
\* validateNow without a remote call (SpecCorp)
\* ------------------------------------------------------------------------

\* A promise validateNow returned is neither resolved nor timed out.
SomePromisePending ==
    \E p \in 1..Len(promises) : promises[p].status = "pending"

\* C31: a pending validateNow is resolved as soon as the machine has a
\* final validity that needs no remote call: no promise is pending while
\* the machine is in implausible, nor while it is in empty.
C31_ResolvedWithoutRemoteCall ==
    SomePromisePending => corpState.tag \notin {"implausible", "empty"}

\* validateNow called in implausible has resolved false at once.
C31_Witness ==
    /\ Len(promises) = 1
    /\ promises[1].status = "false"
    /\ promises[1].timer = Null
    /\ corpState.tag = "implausible"


\* ------------------------------------------------------------------------
\* The remote check comes to an end (SpecSettle)
\* ------------------------------------------------------------------------

\* A step the user takes.
CorpUserStep == CorpOnChange \/ CorpOnBlur \/ CorpOnFocus

\* C32: the machine does not stay in checking forever when the adapter
\* settles every call, and without a user event it leaves checking for
\* valid, invalid or error only.
C32_CheckingComesToAnEnd ==
    /\ (corpState.tag = "checking") ~> (corpState.tag # "checking")
    /\ [][(corpState.tag = "checking" /\ corpState'.tag # "checking"
             /\ ~CorpUserStep)
          => corpState'.tag \in {"valid", "invalid", "error"}]_vars

\* The machine has left checking for error because the fetch rejected.
C32_Witness ==
    /\ corpState.tag = "error"
    /\ corpState.remoteMessage = "Network error"
    /\ Len(requests) >= 1


\* ------------------------------------------------------------------------
\* Cache hits and the debounce (SpecCorp)
\* ------------------------------------------------------------------------

\* The cache holds a verdict for the value, and its TTL has not run out.
CachedNow(value) ==
    /\ value \in DOMAIN cache
    /\ ~CacheExpired(cache[value], now)

\* C33: a change to a value with an unexpired cache entry takes the field to
\* the cached tag without waiting for the idle timer or a blur; entering
\* checking with a value that has none issues a request to the fetcher at
\* once, whatever request for another value is still in flight.
C33_CacheHitBypassesDebounce ==
    [][/\ (CorpOnChange /\ CachedNow(corpState'.value))
            => corpState'.tag = cache[corpState'.value].result.kind
       /\ (EntersChecking /\ ~CachedNow(corpState.value) /\ fetcher = "function")
            => /\ corpState'.tag = "checking"
               /\ Len(requests') = Len(requests) + 1
               /\ Last(requests').currentValue = corpState.value
               /\ Last(requests').status = "pending"
               /\ currentRequest' = Len(requests')
      ]_vars

\* A request for one number is issued while the request for another number,
\* aborted by the edit, has not settled.
C33_Witness ==
    /\ Len(requests) = 2
    /\ requests[1].status = "pending"
    /\ requests[2].status = "pending"
    /\ requests[1].currentValue # requests[2].currentValue
    /\ corpState.tag = "checking"


\* ------------------------------------------------------------------------
\* The idle timer of the local field (SpecSimpleFair)
\* ------------------------------------------------------------------------

\* The field holds the value v, changed at time t and not evaluated since,
\* with the timer that this change armed.
ChangedAndQuiet(v, t) ==
    /\ simpleState.tag = "active"
    /\ simpleState.value = v
    /\ simpleState.lastUpdatedAt = t
    /\ simpleIdle = t + SimpleIdleMs

\* The value v has its verdict, or the field has been changed again.
JudgedOrChanged(v, t) ==
    \/ /\ simpleState.value = v
       /\ simpleState.tag = IF validator[v] THEN "valid" ELSE "invalid"
    \/ simpleState.value # v
    \/ simpleState.tag = "active" /\ simpleState.lastUpdatedAt # t

\* C34: after a change to a non-empty value and no further change the tag
\* becomes valid or invalid as the validator says of that value; a change to
\* a non-empty value leaves the timer armed for a full idle period from that
\* change, and the timer's evaluate runs once, no earlier than an idle
\* period after the last change, on the value then in the field.
C34_IdleTimerEvaluatesLatest ==
    /\ \A v \in SimpleValues \ {EmptyString} :
         \A t \in 0..(MaxTime - SimpleIdleMs) :
            ChangedAndQuiet(v, t) ~> JudgedOrChanged(v, t)
    /\ [][/\ (SimpleOnChange /\ simpleState'.value # EmptyString)
               => simpleIdle' = now + SimpleIdleMs
          /\ SimpleIdleFire
               => /\ now >= simpleState.lastUpdatedAt + SimpleIdleMs
                  /\ simpleIdle' = Null
                  /\ simpleState'.value = simpleState.value
                  /\ simpleState'.tag = IF validator[simpleState.value]
                                        THEN "valid" ELSE "invalid"
         ]_vars

\* The idle timer has judged a value that replaced another one before the
\* timer of the first could fire.
C34_Witness ==
    /\ simpleState.tag = "invalid"
    /\ simpleState.value = <<"b">>
    /\ simpleState.lastBlurAt = Null
    /\ simpleIdle = Null
    /\ now >= 1


\* ------------------------------------------------------------------------
\* Idle and blur triggers of the remote field (SpecCorp)
\* ------------------------------------------------------------------------

\* The tags in which the remote field schedules evaluate.
EvaluatingTags == {"active", "implausible"}

\* C35: the idle timer is armed exactly in the tags active and implausible
\* and the blur timeout is armed in no other tag; a blur in active or
\* implausible schedules evaluate and a blur in any other tag schedules
\* none; an edit of an implausible value leaves the idle timer armed, and
\* the evaluate of either timer classifies the value (the tag is not active
\* afterwards).
C35_TriggersInActiveAndImplausible ==
    /\ [](/\ corpIdle # Null <=> corpState.tag \in EvaluatingTags
          /\ corpBlurEval => corpState.tag \in EvaluatingTags)
    /\ [][/\ CorpOnBlur => (corpBlurEval' <=> corpState.tag \in EvaluatingTags)
          /\ (CorpOnChange /\ corpState.tag = "implausible"
                /\ corpState'.value # EmptyString)
               => corpState'.tag = "active" /\ corpIdle' = now + CorpIdleMs
          /\ (CorpIdleFire \/ CorpBlurEvalFire)
               => /\ corpState.tag \in EvaluatingTags
                  /\ corpState'.tag # "active"
                  /\ corpState'.value = corpState.value
         ]_vars

\* A blur in tag implausible has scheduled an evaluate.
C35_Witness ==
    /\ corpState.tag = "implausible"
    /\ corpBlurEval
    /\ corpIdle # Null


\* ------------------------------------------------------------------------
\* Blur and focus in both field machines (SpecFields)
\* ------------------------------------------------------------------------

\* C36: a blur of the local field changes lastBlurAt and leaves tag, value,
\* lastUpdatedAt and issue as they are; a blur of the remote field changes
\* lastBlurAt and leaves tag, value, lastUpdatedAt, localIssue,
\* remoteMessage, currentValue and lastCheckedAt as they are.
C36_BlurChangesOnlyLastBlurAt ==
    [][/\ SimpleOnBlur =>
            /\ simpleState'.lastBlurAt = now
            /\ simpleState'.tag = simpleState.tag
            /\ simpleState'.value = simpleState.value
            /\ simpleState'.lastUpdatedAt = simpleState.lastUpdatedAt
            /\ simpleState'.issue = simpleState.issue
       /\ CorpOnBlur =>
            /\ corpState'.lastBlurAt = now
            /\ corpState'.tag = corpState.tag
            /\ corpState'.value = corpState.value
            /\ corpState'.lastUpdatedAt = corpState.lastUpdatedAt
            /\ corpState'.localIssue = corpState.localIssue
            /\ corpState'.remoteMessage = corpState.remoteMessage
            /\ corpState'.currentValue = corpState.currentValue
            /\ corpState'.lastCheckedAt = corpState.lastCheckedAt
      ]_vars

\* Both fields were blurred after they had got their verdict.
C36_Witness ==
    /\ simpleState.tag = "valid"
    /\ simpleState.lastUpdatedAt = 0
    /\ simpleState.lastBlurAt = 1
    /\ corpState.tag = "invalid"
    /\ corpState.lastUpdatedAt = 0
    /\ corpState.lastBlurAt = 1


\* The tag a focus gives a field that shows an issue.
TagAfterFocus(value) ==
    IF value # EmptyString THEN "active" ELSE "empty"

\* C37: a focus of the local field in tag invalid gives active for a
\* non-empty value and empty for "", with the issue cleared and nothing else
\* changed, and in any other tag leaves the state as it is; a focus of the
\* remote field in tag invalid, error or implausible does the same with
\* localIssue and remoteMessage cleared, and in any other tag leaves the
\* state and the request in flight as they are.
C37_FocusTransitions ==
    [][/\ SimpleOnFocus =>
            simpleState' =
                IF simpleState.tag = "invalid"
                THEN [simpleState EXCEPT !.tag = TagAfterFocus(simpleState.value),
                                         !.issue = NullStr]
                ELSE simpleState
       /\ CorpOnFocus =>
            /\ corpState' =
                 IF corpState.tag \in {"invalid", "error", "implausible"}
                 THEN [corpState EXCEPT !.tag = TagAfterFocus(corpState.value),
                                        !.localIssue = NullStr,
                                        !.remoteMessage = NullStr]
                 ELSE corpState
            /\ corpState.tag \in {"checking", "valid"}
                 => /\ currentRequest' = currentRequest
                    /\ requests' = requests
                    /\ cache' = cache
      ]_vars

\* A focus has taken the local field from invalid with "" to empty and the
\* remote field from a remote verdict back to active.
C37_Witness ==
    /\ simpleState.tag = "empty"
    /\ simpleState.lastUpdatedAt = 0
    /\ now = 1
    /\ simpleState.lastBlurAt = Null
    /\ corpState.tag = "active"
    /\ corpState.lastCheckedAt # Null
    /\ corpState.remoteMessage = NullStr


\* ------------------------------------------------------------------------
\* Evaluate of the local field (SpecSimple)
\* ------------------------------------------------------------------------

\* A step that dispatches evaluate to the local field.
SimpleEvaluates == SimpleEvaluateCall \/ SimpleIdleFire \/ SimpleBlurEvalFire

\* The tag and issue the validator gives a value.
Judged(value) ==
    IF validator[value] THEN [tag |-> "valid", issue |-> NullStr]
    ELSE [tag |-> "invalid", issue |-> "invalid"]

\* C38: an evaluate of the local field, in whatever tag it arrives, gives
\* valid with no issue when the validator accepts the value in the field and
\* invalid with the issue set when it rejects it, and leaves value and
\* lastBlurAt as they are; an evaluate of the resulting state, at any later
\* time, gives the same tag and issue again.
C38_EvaluateTotalAndIdempotent ==
    [][SimpleEvaluates =>
          /\ simpleState'.tag = Judged(simpleState.value).tag
          /\ simpleState'.issue = Judged(simpleState.value).issue
          /\ simpleState'.value = simpleState.value
          /\ simpleState'.lastBlurAt = simpleState.lastBlurAt
          /\ \A t \in now..MaxTime :
                LET again == simpleFieldReducer(simpleState',
                                 [type |-> "evaluate", timestamp |-> t])
                IN /\ again.tag = simpleState'.tag
                   /\ again.issue = simpleState'.issue
                   /\ again.value = simpleState'.value
      ]_vars

\* An evaluate has judged an empty field, which no timer would evaluate.
C38_Witness ==
    /\ simpleState.tag = "invalid"
    /\ simpleState.value = EmptyString
    /\ simpleState.issue = "invalid"
    /\ simpleState.lastUpdatedAt >= 1


\* ------------------------------------------------------------------------
\* The value a remote verdict is shown against (SpecCorp)
\* ------------------------------------------------------------------------

\* C39: whenever the remote field is in tag checking, valid, invalid or
\* error, currentValue is the value in the field and that value is exactly
\* nine digits.
C39_VerdictAgainstFieldValue ==
    corpState.tag \in {"checking", "valid", "invalid", "error"}
        => /\ corpState.currentValue = corpState.value
           /\ ExactlyNineDigits(corpState.value)

\* The field shows a remote error for the second number, typed after a
\* check of another value had been started.
C39_Witness ==
    /\ corpState.tag = "error"
    /\ corpState.value = ValueB
    /\ corpState.currentValue = ValueB
    /\ Len(requests) = 2
    /\ requests[1].currentValue = ValueA


\* ------------------------------------------------------------------------
\* What the remote field writes to the cache (SpecCorp)
\* ------------------------------------------------------------------------

\* The step writes an entry under the key.
WritesEntry(key) ==
    /\ key \in DOMAIN cache'
    /\ key \notin DOMAIN cache \/ cache'[key] # cache[key]

\* The step is the settlement of request id.
Settles(id) ==
    /\ id \in 1..Len(requests)
    /\ requests[id].status = "pending"
    /\ requests'[id].status = "settled"

\* C40: every step that writes a cache entry under a key is the settlement
\* of a request that was issued with that key as its value, is the current
\* request and has not been aborted, and the entry holds a valid or invalid
\* result the adapter returns for that value; the settlement of a request
\* that was aborted or is no longer the current one writes nothing.
C40_CacheHoldsAnswersForItsKey ==
    [][/\ \A key \in CorpKeys :
            WritesEntry(key) =>
               \E id \in 1..Len(requests) :
                  /\ Settles(id)
                  /\ requests[id].currentValue = key
                  /\ currentRequest = id
                  /\ ~requests[id].aborted
                  /\ cache'[key].result \in ResultsFor(key)
                  /\ cache'[key].result.kind \in {"valid", "invalid"}
       /\ \A id \in 1..Len(requests) :
            (Settles(id) /\ (requests[id].aborted \/ currentRequest # id))
               => cache' = cache
      ]_vars

\* The answer for the first number came after the user had typed the second
\* one: only the second number has an entry.
C40_Witness ==
    /\ Len(requests) = 2
    /\ requests[1].currentValue = ValueA
    /\ requests[1].aborted
    /\ requests[1].status = "settled"
    /\ ValueA \notin DOMAIN cache
    /\ ValueB \in DOMAIN cache
    /\ cache[ValueB].result.kind = "invalid"

=============================================================================
